---- MODULE Spec2Model ----
(***************************************************************************)
(* Model of the activity-dump local storage                                *)
(* (pkg/security/security_profile/dump/local_storage.go): a bounded LRU    *)
(* index of dumps, the eviction callback that deletes the files of an      *)
(* evicted dump, the startup snapshot of the output directory, Persist     *)
(* (write to a ".tmp" file, then rename) and SendTelemetry.                *)
(*                                                                         *)
(* A file name is the sequence of its dot-separated components:            *)
(* <<"d1","json","gz">> is d1.json.gz. All files live in the one output    *)
(* directory. Executor 0 is the goroutine that runs the constructor,       *)
(* executors 1..NumThreads are the goroutines that call Persist and        *)
(* SendTelemetry on the constructed store.                                 *)
(***************************************************************************)
EXTENDS Integers, Sequences, FiniteSets, TLC

(* ------------------------------ bounds -------------------------------- *)
\* the work of a run: the files found at startup, the Persist and
\* SendTelemetry calls and the injected I/O failures, each counting one
MaxOps == 4
\* largest configured ActivityDumpLocalStorageMaxDumpsCount
MaxCapacity == 2

(* ------------------------------ inputs -------------------------------- *)
\* dump identities (ad.Metadata.Name), in the order in which calls first use them
NameOrder == <<"d1", "d2", "d3">>
Names == {NameOrder[i] : i \in 1..Len(NameOrder)}
\* storage formats a request may ask for
ReqFormats == {"json"}
\* the raw buffer handed to the Persist call that is operation number n:
\* two bytes, different from the bytes of every other call
BufferOf(n) == <<2 * n, 2 * n + 1>>

\* the executor that runs NewActivityDumpLocalStorage
Ctor == 0
\* the goroutines that call Persist and SendTelemetry
Threads == {1, 2}
Execs == {Ctor} \cup Threads

(* --------------------------- file names ------------------------------- *)
\* config.ParseStorageFormat accepts these extensions
StorageFormats == {"json", "protobuf", "dot", "profile"}

ParseStorageFormatOk(ext) == ext \in StorageFormats

\* filepath.Ext: the suffix from the last dot, "" when there is none
Ext(f) == IF Len(f) > 1 THEN f[Len(f)] ELSE ""

\* strings.TrimSuffix(s, ext) with ext = "" or the last component of s
TrimSuffix(f, ext) ==
    IF ext # "" /\ Len(f) > 1 /\ f[Len(f)] = ext THEN SubSeq(f, 1, Len(f) - 1) ELSE f

\* request.GetOutputPath(name): <dir>/<name>.<format>[.gz]
GetOutputPath(name, format, compression) ==
    IF compression THEN <<name, format, "gz">> ELSE <<name, format>>

\* mutant: the data is written at the output path itself
TmpPathInPlace(p) == p
\* outputPath + ".tmp"
TmpPath(p) == Append(p, "tmp")

\* mutant: only the ".gz" suffix is taken off the name of a compressed file
DumpNameOfKeepsInner(f) ==
    IF Ext(f) = "gz" THEN TrimSuffix(f, "gz") ELSE TrimSuffix(f, Ext(f))
\* the dump name the snapshot derives from a file name (lines 132-135);
\* names without a dot in them, so the remaining single component is the name
DumpNameOf(f) ==
    LET ext == Ext(f)
        base == TrimSuffix(f, ext)
        stripped == IF ext = "gz" THEN TrimSuffix(base, Ext(base)) ELSE base
    IN  stripped

\* compressWithGZip: a gzip stream is a header followed by the payload
GzMagic == 31
Compress(b) == <<GzMagic>> \o b

(* ------------------------------- LRU ---------------------------------- *)
\* simplelru.LRU as a sequence of [key, files], most recently used first
Keys(l) == {l[i].key : i \in 1..Len(l)}
IndexOf(l, k) == CHOOSE i \in 1..Len(l) : l[i].key = k
Without(l, i) == SubSeq(l, 1, i - 1) \o SubSeq(l, i + 1, Len(l))
MoveToFront(l, i) == <<l[i]>> \o Without(l, i)

\* simplelru.LRU.Get: a hit moves the entry to the front
LRUGet(l, k) ==
    IF k \in Keys(l)
    THEN [ok |-> TRUE, lru |-> MoveToFront(l, IndexOf(l, k)), files |-> l[IndexOf(l, k)].files]
    ELSE [ok |-> FALSE, lru |-> l, files |-> <<>>]

\* simplelru.LRU.Add: an existing key is refreshed and moved to the front; a
\* new key is pushed to the front and the oldest entry leaves when the size
\* is exceeded. evicted holds the entry handed to the eviction callback.
LRUAdd(l, size, k, files) ==
    IF k \in Keys(l)
    THEN [lru |-> <<[key |-> k, files |-> files]>> \o Without(l, IndexOf(l, k)), evicted |-> <<>>]
    ELSE LET pushed == <<[key |-> k, files |-> files]>> \o l
         IN  IF Len(pushed) > size
             THEN [lru |-> SubSeq(pushed, 1, Len(pushed) - 1), evicted |-> <<pushed[Len(pushed)]>>]
             ELSE [lru |-> pushed, evicted |-> <<>>]

\* the value behind the *[]string held for key k is replaced in place
SetFiles(l, k, files) ==
    [i \in 1..Len(l) |-> IF l[i].key = k THEN [key |-> k, files |-> files] ELSE l[i]]

(* ------------------------- directory listing -------------------------- *)
\* byte order of the name components that occur
StrOrder == <<"d1", "d2", "d3", "dot", "gz", "json", "notes", "profile", "protobuf", "tmp", "txt">>
StrRank(s) == CHOOSE i \in 1..Len(StrOrder) : StrOrder[i] = s

\* f sorts before g by file name, as os.ReadDir returns the entries
RECURSIVE NameLess(_, _)
NameLess(f, g) ==
    IF f = <<>> THEN g # <<>>
    ELSE IF g = <<>> THEN FALSE
    ELSE IF Head(f) = Head(g) THEN NameLess(Tail(f), Tail(g))
    ELSE StrRank(Head(f)) < StrRank(Head(g))

Injective(p) == \A i, j \in DOMAIN p : i # j => p[i] # p[j]
Perms(S) == {p \in [1..Cardinality(S) -> S] : Injective(p)}

\* os.ReadDir: the entries of the directory sorted by file name
ReadDir(d) ==
    CHOOSE p \in Perms(DOMAIN d) : \A i, j \in DOMAIN p : i < j => NameLess(p[i], p[j])

(* ------------------------ snapshot of the dumps ----------------------- *)
\* time.Time: 0 is the zero value, a real modification time is positive
IsZero(t) == t = 0
Before(a, b) == a < b

\* mutant: the extension of the entry is not looked at
MergeFileKeepsAll(dumps, f, d, infoFails) ==
    IF f \in infoFails THEN dumps
    ELSE LET dumpName == DumpNameOf(f)
             ad == IF dumpName \in DOMAIN dumps
                   THEN dumps[dumpName]
                   ELSE [Name |-> dumpName, Files |-> <<>>, MTime |-> 0]
             withFile == [ad EXCEPT !.Files = Append(@, f)]
         IN  [k \in DOMAIN dumps \cup {dumpName} |-> IF k = dumpName THEN withFile ELSE dumps[k]]

\* one iteration of the loop over the directory entries (lines 117-149):
\* dumps is localDumps, f the entry, infoFails the entries whose Info() fails
MergeFile(dumps, f, d, infoFails) ==
    LET ext == Ext(f) IN
    IF ~ParseStorageFormatOk(ext) /\ ext # "gz" THEN dumps
    ELSE IF f \in infoFails THEN dumps
    ELSE LET dumpName == DumpNameOf(f)
             ad == IF dumpName \in DOMAIN dumps
                   THEN dumps[dumpName]
                   ELSE [Name |-> dumpName, Files |-> <<>>, MTime |-> 0]
             withFile == [ad EXCEPT !.Files = Append(@, f)]
             withTime == IF ~IsZero(withFile.MTime) /\ Before(withFile.MTime, d[f].mtime)
                         THEN [withFile EXCEPT !.MTime = d[f].mtime]
                         ELSE withFile
         IN  [k \in DOMAIN dumps \cup {dumpName} |-> IF k = dumpName THEN withTime ELSE dumps[k]]

\* the whole loop over the listing files[i..]
RECURSIVE MergeFiles(_, _, _, _, _)
MergeFiles(dumps, files, i, d, infoFails) ==
    IF i > Len(files) THEN dumps
    ELSE MergeFiles(MergeFile(dumps, files[i], d, infoFails), files, i + 1, d, infoFails)

\* dumpFilesSlice.Less
Less(a, b) == Before(a.MTime, b.MTime)

\* newDumpFilesSlice then sort.Sort: the map is walked in an unspecified
\* order and the sort is not stable, so the result is any arrangement of the
\* dumps in which no dump comes before one that is Less than it
SortedDumps(dumps) ==
    {p \in Perms({dumps[k] : k \in DOMAIN dumps}) :
        \A i, j \in DOMAIN p : i < j => ~Less(p[j], p[i])}

(* ------------------------------ state --------------------------------- *)
VARIABLES
    cfg,          \* [maxDumps, hasObserver]: the configured size, and whether
                  \* the manager has a security profile manager to notify
    dirState,     \* the output directory: "unset" (none configured), "absent",
                  \* "present" or "unreadable"
    disk,         \* file name -> [data, mtime] for the files that exist
    localDumps,   \* adls.localDumps, most recently used first
    deletedCount, \* adls.deletedCount
    mutex,        \* the executor holding the storage lock, or NoLock
    pc,           \* executor -> position in the code
    loc,          \* executor -> locals of the call in progress
    ret,          \* what the call that returned last returned
    size,         \* dump name -> ad.Metadata.Size
    observerLog,  \* the path lists OnLocalStorageCleanup received, in order
    telemetry,    \* what the last SendTelemetry handed to the statsd client
    seeded,       \* history: the dump names the constructor added, in order
    persisted,    \* history: the dump names of the Persist calls that returned nil
    evicted,      \* history: the entries the LRU evicted, in order
    flushed,      \* history: the sum of the values SendTelemetry swapped out
    nOps,         \* the work so far, see MaxOps
    cri,          \* the CRI client: the package variables globalCRIUtil and
                  \* once, the retrier, and the goroutines calling GetUtil
    k8s           \* the pod transformer: the calls made, with what each fed
                  \* to its hash and what it returned

vars == <<cfg, dirState, disk, localDumps, deletedCount, mutex, pc, loc, ret, size,
          observerLog, telemetry, seeded, persisted, evicted, flushed, nOps,
          cri, k8s>>

\* the variables of the local storage of activity dumps
storageVars ==
    <<cfg, dirState, disk, localDumps, deletedCount, mutex, pc, loc, ret, size,
      observerLog, telemetry, seeded, persisted, evicted, flushed, nOps>>

\* the CRI client before any call of GetUtil, and the transformer before any
\* call
NoCri == [used |-> FALSE]
NoK8s == <<>>

NoLock == -1

\* locals of an executor that is not inside a call; cbKept are the paths of
\* the last callback whose os.Remove failed on a file that is there (the
\* warnings of line 90), madeDir that the constructor created the directory
\* (line 107), skipped the entries whose Info() failed (the warnings of line
\* 127), and the pre* fields keep what the call found when it started
NoLoc == [name |-> "", format |-> "", compression |-> FALSE, buf |-> <<>>, raw |-> <<>>,
          outputPath |-> <<>>, pending |-> <<>>, cbFiles |-> <<>>, cbI |-> 0, cbKept |-> {},
          madeDir |-> FALSE, skipped |-> {},
          preDumps |-> <<>>, preDeleted |-> 0, preFinal |-> <<>>, preEvicted |-> 0,
          preSize |-> 0]

\* the files the directory may hold when the program starts
SeedFiles == {<<"d1", "json">>, <<"d1", "json", "gz">>, <<"d2", "protobuf">>, <<"notes", "txt">>}
\* their modification times
SeedMTime(f) ==
    CASE f = <<"d1", "json">> -> 3
      [] f = <<"d1", "json", "gz">> -> 4
      [] f = <<"d2", "protobuf">> -> 1
      [] OTHER -> 2
\* the modification time of a file written after startup
Now == 5
SeedData == <<7>>

\* the directories made of some of the files S0
DisksOf(S0) ==
    {[f \in S |-> [data |-> SeedData, mtime |-> SeedMTime(f)]] :
        S \in {T \in SUBSET S0 : Cardinality(T) <= MaxOps}}

InitDisks == DisksOf(SeedFiles)

\* the local storage before its construction, on one of the directories disks
StorageStart(disks) ==
    /\ cfg \in [maxDumps : 0..MaxCapacity, hasObserver : BOOLEAN]
    /\ dirState \in {"unset", "absent", "present", "unreadable"}
    /\ disk \in disks
    /\ dirState \in {"unset", "absent"} => disk = <<>>
    /\ localDumps = <<>>
    /\ deletedCount = 0
    /\ mutex = NoLock
    /\ pc = [e \in Execs |-> IF e = Ctor THEN "new" ELSE "idle"]
    /\ loc = [e \in Execs |-> NoLoc]
    /\ ret = "none"
    /\ size = [n \in Names |-> 0]
    /\ observerLog = <<>>
    /\ telemetry = [gaugeSent |-> FALSE, gauge |-> 0, countSent |-> FALSE, count |-> 0]
    /\ seeded = <<>>
    /\ persisted = <<>>
    /\ evicted = <<>>
    /\ flushed = 0
    /\ nOps = Cardinality(DOMAIN disk)

\* the program starts on one of the directories disks
StartWith(disks) ==
    /\ StorageStart(disks)
    /\ cri = NoCri
    /\ k8s = NoK8s

Init == StartWith(InitDisks)

\* a directory where an earlier run has left a temporary file
StraySeedFiles ==
    {<<"d1", "json">>, <<"d1", "json", "tmp">>, <<"d2", "protobuf">>, <<"notes", "txt">>}

InitStrayTmp == StartWith(DisksOf(StraySeedFiles))

\* a directory that may hold files of three dumps
ManySeedFiles ==
    {<<"d1", "json">>, <<"d2", "protobuf">>, <<"d3", "json">>, <<"notes", "txt">>}

InitManyDumps == StartWith(DisksOf(ManySeedFiles))

(* --------------------------- small helpers ---------------------------- *)
Key(name) == <<name>>
Exists(f) == f \in DOMAIN disk
\* the directory with file f created or replaced
WriteFile(d, f, data) ==
    [g \in DOMAIN d \cup {f} |-> IF g = f THEN [data |-> data, mtime |-> Now] ELSE d[g]]
\* mutant: os.Remove leaves the file where it is
RemoveFileKeeps(d, f) == d
\* the directory without file f
RemoveFile(d, f) == [g \in DOMAIN d \ {f} |-> d[g]]
\* the content of file f as a sequence of at most one element
Content(d, f) == IF f \in DOMAIN d THEN <<d[f].data>> ELSE <<>>
\* a failure may be injected
CanFail == nOps < MaxOps
\* the work counter after a step that may have injected a failure
Spend(failed) == nOps' = IF failed THEN nOps + 1 ELSE nOps
\* something in the state mentions dump name n
Touched(n) ==
    \/ size[n] # 0
    \/ \E f \in DOMAIN disk : Head(f) = n
    \/ \E i \in DOMAIN seeded : seeded[i] = Key(n)
\* dump names are interchangeable: a call for a name that nothing mentions
\* yet takes the first such name
FirstUse(name) ==
    \A i, j \in DOMAIN NameOrder :
        i < j /\ NameOrder[j] = name => Touched(NameOrder[i]) \/ Touched(name)
\* idle goroutines are interchangeable: a call is made by the first of them
Caller(t) == pc[t] = "idle" /\ \A u \in Threads : u < t => pc[u] # "idle"
\* mutant: the LRU is created one entry too large
LRUSizeOffByOne == cfg.maxDumps + 1
\* line 77: the size simplelru.NewLRU is given
LRUSize == cfg.maxDumps
\* where the caller of the LRU goes on after Add returned
AfterAdd(e) == IF e = Ctor THEN "new_add" ELSE "persist_ret"

(* ------------------------ the eviction callback ----------------------- *)
\* simplelru took `added.evicted` out of the LRU and calls the callback with
\* it (line 77): executor e enters the callback, or goes on when nothing
\* was evicted
EnterCallback(e, added, locals) ==
    IF added.evicted = <<>>
    THEN /\ pc' = [pc EXCEPT ![e] = AfterAdd(e)]
         /\ loc' = [loc EXCEPT ![e] = locals]
         /\ evicted' = evicted
    ELSE /\ pc' = [pc EXCEPT ![e] = "cb_check"]
         /\ loc' = [loc EXCEPT ![e] = [locals EXCEPT !.cbFiles = added.evicted[1].files, !.cbI = 1,
                                                        !.cbKept = {}]]
         /\ evicted' = Append(evicted, added.evicted[1])

\* mutant: the security profile manager is not told
CbNotifyForgets(e) ==
    /\ pc[e] = "cb_check"
    /\ pc' = [pc EXCEPT ![e] = IF Len(loc[e].cbFiles) = 0 THEN AfterAdd(e) ELSE "cb_remove"]
    /\ UNCHANGED <<cri, k8s, cfg, dirState, disk, localDumps, deletedCount, mutex, loc, ret, size,
                   observerLog, telemetry, seeded, persisted, evicted, flushed, nOps>>

\* lines 78-85: nothing to do for an empty list, otherwise notify the
\* security profile manager when there is one
CbNotify(e) ==
    /\ pc[e] = "cb_check"
    /\ IF Len(loc[e].cbFiles) = 0
       THEN /\ pc' = [pc EXCEPT ![e] = AfterAdd(e)]
            /\ observerLog' = observerLog
       ELSE /\ pc' = [pc EXCEPT ![e] = "cb_remove"]
            /\ observerLog' = IF cfg.hasObserver
                              THEN Append(observerLog, loc[e].cbFiles)
                              ELSE observerLog
    /\ UNCHANGED <<cri, k8s, cfg, dirState, disk, localDumps, deletedCount, mutex, loc, ret, size,
                   telemetry, seeded, persisted, evicted, flushed, nOps>>

\* mutant: the loop over the files starts at the second file
CbRemoveSkipsFirst(e, removeFails) ==
    /\ pc[e] = "cb_remove"
    /\ ~removeFails
    /\ LET f == loc[e].cbFiles[loc[e].cbI] IN
       disk' = IF Exists(f) /\ loc[e].cbI > 1 THEN RemoveFile(disk, f) ELSE disk
    /\ loc' = [loc EXCEPT ![e].cbI = @ + 1]
    /\ pc' = [pc EXCEPT ![e] = IF loc[e].cbI = Len(loc[e].cbFiles) THEN "cb_inc" ELSE "cb_remove"]
    /\ UNCHANGED <<cri, k8s, cfg, dirState, localDumps, deletedCount, mutex, ret, size, observerLog,
                   telemetry, seeded, persisted, evicted, flushed, nOps>>

\* mutant: the loop over the files stops after the first file
CbRemoveFirstOnly(e, removeFails) ==
    /\ pc[e] = "cb_remove"
    /\ ~removeFails
    /\ LET f == loc[e].cbFiles[loc[e].cbI] IN
       disk' = IF Exists(f) THEN RemoveFile(disk, f) ELSE disk
    /\ loc' = [loc EXCEPT ![e].cbI = @ + 1]
    /\ pc' = [pc EXCEPT ![e] = "cb_inc"]
    /\ UNCHANGED <<cri, k8s, cfg, dirState, localDumps, deletedCount, mutex, ret, size, observerLog,
                   telemetry, seeded, persisted, evicted, flushed, nOps>>

\* mutant: the callback returns at the first os.Remove that fails
CbRemoveStopsOnError(e, removeFails) ==
    /\ pc[e] = "cb_remove"
    /\ LET f == loc[e].cbFiles[loc[e].cbI] IN
       /\ removeFails => CanFail /\ Exists(f)
       /\ disk' = IF Exists(f) /\ ~removeFails THEN RemoveFile(disk, f) ELSE disk
    /\ Spend(removeFails)
    /\ loc' = [loc EXCEPT ![e].cbI = @ + 1,
                          ![e].cbKept = IF removeFails
                                        THEN @ \cup {loc[e].cbFiles[loc[e].cbI]}
                                        ELSE @]
    /\ pc' = [pc EXCEPT ![e] = IF removeFails THEN AfterAdd(e)
                               ELSE IF loc[e].cbI = Len(loc[e].cbFiles) THEN "cb_inc"
                               ELSE "cb_remove"]
    /\ UNCHANGED <<cri, k8s, cfg, dirState, localDumps, deletedCount, mutex, ret, size, observerLog,
                   telemetry, seeded, persisted, evicted, flushed>>

\* lines 88-92, one iteration: os.Remove of the next file; an error (the
\* file is not there, or removeFails) is logged and the loop goes on
CbRemove(e, removeFails) ==
    /\ pc[e] = "cb_remove"
    /\ LET f == loc[e].cbFiles[loc[e].cbI] IN
       /\ removeFails => CanFail /\ Exists(f)
       /\ disk' = IF Exists(f) /\ ~removeFails THEN RemoveFile(disk, f) ELSE disk
    /\ Spend(removeFails)
    /\ loc' = [loc EXCEPT ![e].cbI = @ + 1,
                          ![e].cbKept = IF removeFails
                                        THEN @ \cup {loc[e].cbFiles[loc[e].cbI]}
                                        ELSE @]
    /\ pc' = [pc EXCEPT ![e] = IF loc[e].cbI = Len(loc[e].cbFiles) THEN "cb_inc" ELSE "cb_remove"]
    /\ UNCHANGED <<cri, k8s, cfg, dirState, localDumps, deletedCount, mutex, ret, size, observerLog,
                   telemetry, seeded, persisted, evicted, flushed>>

\* mutant: the counter counts the files, not the dump
CbIncPerFile(e) ==
    /\ pc[e] = "cb_inc"
    /\ deletedCount' = deletedCount + Len(loc[e].cbFiles)
    /\ pc' = [pc EXCEPT ![e] = AfterAdd(e)]
    /\ loc' = [loc EXCEPT ![e].cbFiles = <<>>, ![e].cbI = 0]
    /\ UNCHANGED <<cri, k8s, cfg, dirState, disk, localDumps, mutex, ret, size, observerLog,
                   telemetry, seeded, persisted, evicted, flushed, nOps>>

\* mutant: the evictions of the constructor are not counted
CbIncAfterStartup(e) ==
    /\ pc[e] = "cb_inc"
    /\ deletedCount' = IF e = Ctor THEN deletedCount ELSE deletedCount + 1
    /\ pc' = [pc EXCEPT ![e] = AfterAdd(e)]
    /\ loc' = [loc EXCEPT ![e].cbFiles = <<>>, ![e].cbI = 0]
    /\ UNCHANGED <<cri, k8s, cfg, dirState, disk, localDumps, mutex, ret, size, observerLog,
                   telemetry, seeded, persisted, evicted, flushed, nOps>>

\* line 94: adls.deletedCount.Add(1), and the callback returns
CbInc(e) ==
    /\ pc[e] = "cb_inc"
    /\ deletedCount' = deletedCount + 1
    /\ pc' = [pc EXCEPT ![e] = AfterAdd(e)]
    /\ loc' = [loc EXCEPT ![e].cbFiles = <<>>, ![e].cbI = 0]
    /\ UNCHANGED <<cri, k8s, cfg, dirState, disk, localDumps, mutex, ret, size, observerLog,
                   telemetry, seeded, persisted, evicted, flushed, nOps>>

(* --------------------- NewActivityDumpLocalStorage -------------------- *)
\* mutant: the error of simplelru.NewLRU is dropped
NewAcceptsAnySize ==
    /\ pc[Ctor] = "new"
    /\ LRUSize <= 0
    /\ pc' = [pc EXCEPT ![Ctor] = "done"]
    /\ ret' = "ok"
    /\ UNCHANGED <<cri, k8s, cfg, dirState, disk, localDumps, deletedCount, mutex, loc, size, observerLog,
                   telemetry, seeded, persisted, evicted, flushed, nOps>>

\* lines 72-98: simplelru.NewLRU refuses a size that is not positive
NewFailsOnSize ==
    /\ pc[Ctor] = "new"
    /\ LRUSize <= 0
    /\ pc' = [pc EXCEPT ![Ctor] = "failed"]
    /\ ret' = "err_lru"
    /\ UNCHANGED <<cri, k8s, cfg, dirState, disk, localDumps, deletedCount, mutex, loc, size, observerLog,
                   telemetry, seeded, persisted, evicted, flushed, nOps>>

\* line 101: no directory configured, no snapshot
NewWithoutDirectory ==
    /\ pc[Ctor] = "new"
    /\ LRUSize > 0
    /\ dirState = "unset"
    /\ pc' = [pc EXCEPT ![Ctor] = "done"]
    /\ ret' = "ok"
    /\ UNCHANGED <<cri, k8s, cfg, dirState, disk, localDumps, deletedCount, mutex, loc, size, observerLog,
                   telemetry, seeded, persisted, evicted, flushed, nOps>>

\* mutant: an absent directory ends the constructor like any other error
NewListFailsOnAbsent(mkdirFails) ==
    /\ pc[Ctor] = "new"
    /\ LRUSize > 0
    /\ dirState \in {"absent", "unreadable"}
    /\ ~mkdirFails
    /\ pc' = [pc EXCEPT ![Ctor] = "failed"]
    /\ ret' = "err_list"
    /\ UNCHANGED <<cri, k8s, cfg, dirState, disk, localDumps, deletedCount, mutex, loc, size, observerLog,
                   telemetry, seeded, persisted, evicted, flushed, nOps>>

\* lines 103-113: os.ReadDir fails; an absent directory is created
\* (mkdirFails: os.MkdirAll fails), any other error ends the constructor
NewListFails(mkdirFails) ==
    /\ pc[Ctor] = "new"
    /\ LRUSize > 0
    /\ dirState \in {"absent", "unreadable"}
    /\ mkdirFails => CanFail /\ dirState = "absent"
    /\ IF dirState = "absent" /\ ~mkdirFails
       THEN /\ dirState' = "present"
            /\ pc' = [pc EXCEPT ![Ctor] = "new_add"]
            /\ loc' = [loc EXCEPT ![Ctor].madeDir = TRUE]
            /\ ret' = ret
       ELSE /\ dirState' = dirState
            /\ pc' = [pc EXCEPT ![Ctor] = "failed"]
            /\ loc' = loc
            /\ ret' = IF dirState = "absent" THEN "err_mkdir" ELSE "err_list"
    /\ Spend(mkdirFails)
    /\ UNCHANGED <<cri, k8s, cfg, disk, localDumps, deletedCount, mutex, size, observerLog,
                   telemetry, seeded, persisted, evicted, flushed>>

\* the entries of the directory whose extension the snapshot knows (line 120)
Known(f) == ParseStorageFormatOk(Ext(f)) \/ Ext(f) = "gz"

\* mutant: an Info() that fails ends the constructor
NewSnapshotFailsOnInfo(infoFails) ==
    /\ pc[Ctor] = "new"
    /\ LRUSize > 0
    /\ dirState = "present"
    /\ infoFails \subseteq {f \in DOMAIN disk : Known(f)}
    /\ nOps + Cardinality(infoFails) <= MaxOps
    /\ LET files == ReadDir(disk)
           dumps == MergeFiles(<<>>, files, 1, disk, infoFails)
       IN  \E sorted \in SortedDumps(dumps) :
               loc' = [loc EXCEPT ![Ctor].pending = IF infoFails = {} THEN sorted ELSE <<>>,
                                  ![Ctor].skipped = infoFails]
    /\ nOps' = nOps + Cardinality(infoFails)
    /\ pc' = [pc EXCEPT ![Ctor] = IF infoFails = {} THEN "new_add" ELSE "failed"]
    /\ ret' = IF infoFails = {} THEN ret ELSE "err_list"
    /\ UNCHANGED <<cri, k8s, cfg, dirState, disk, localDumps, deletedCount, mutex, size, observerLog,
                   telemetry, seeded, persisted, evicted, flushed>>

\* lines 103-152: the directory is listed, its files are merged into dumps
\* and the dumps are sorted; infoFails are the entries whose Info() fails
NewSnapshot(infoFails) ==
    /\ pc[Ctor] = "new"
    /\ LRUSize > 0
    /\ dirState = "present"
    /\ infoFails \subseteq {f \in DOMAIN disk : Known(f)}
    /\ nOps + Cardinality(infoFails) <= MaxOps
    /\ LET files == ReadDir(disk)
           dumps == MergeFiles(<<>>, files, 1, disk, infoFails)
       IN  \E sorted \in SortedDumps(dumps) :
               loc' = [loc EXCEPT ![Ctor].pending = sorted, ![Ctor].skipped = infoFails]
    /\ nOps' = nOps + Cardinality(infoFails)
    /\ pc' = [pc EXCEPT ![Ctor] = "new_add"]
    /\ UNCHANGED <<cri, k8s, cfg, dirState, disk, localDumps, deletedCount, mutex, ret, size, observerLog,
                   telemetry, seeded, persisted, evicted, flushed>>

\* lines 154-156, one iteration: the next dump is added to the LRU
NewAdd ==
    /\ pc[Ctor] = "new_add"
    /\ loc[Ctor].pending # <<>>
    /\ LET ad == Head(loc[Ctor].pending)
           added == LRUAdd(localDumps, LRUSize, ad.Name, ad.Files)
       IN  /\ localDumps' = added.lru
           /\ seeded' = Append(seeded, ad.Name)
           /\ EnterCallback(Ctor, added, [loc[Ctor] EXCEPT !.pending = Tail(@)])
    /\ UNCHANGED <<cri, k8s, cfg, dirState, disk, deletedCount, mutex, ret, size, observerLog,
                   telemetry, persisted, flushed, nOps>>

\* line 159: the constructor returns the storage
NewReturn ==
    /\ pc[Ctor] = "new_add"
    /\ loc[Ctor].pending = <<>>
    /\ pc' = [pc EXCEPT ![Ctor] = "done"]
    /\ loc' = [loc EXCEPT ![Ctor] = NoLoc]
    /\ ret' = "ok"
    /\ UNCHANGED <<cri, k8s, cfg, dirState, disk, localDumps, deletedCount, mutex, size, observerLog,
                   telemetry, seeded, persisted, evicted, flushed, nOps>>

(* ------------------------------ Persist ------------------------------- *)
\* mutant: the lock is not released when the call returns
ReturnKeepsLock(t, r) ==
    /\ pc' = [pc EXCEPT ![t] = "idle"]
    /\ loc' = [loc EXCEPT ![t] = NoLoc]
    /\ ret' = r
    /\ mutex' = mutex

\* the deferred storage.Unlock() and the return of value r to the caller
Return(t, r) ==
    /\ pc' = [pc EXCEPT ![t] = "idle"]
    /\ loc' = [loc EXCEPT ![t] = NoLoc]
    /\ ret' = r
    /\ mutex' = NoLock

\* mutant: Persist runs without taking the lock
PersistBeginNoLock(t, name, format, compression) ==
    /\ pc[Ctor] = "done"
    /\ Caller(t)
    /\ FirstUse(name)
    /\ nOps < MaxOps
    /\ nOps' = nOps + 1
    /\ mutex' = mutex
    /\ pc' = [pc EXCEPT ![t] = "compress"]
    /\ loc' = [loc EXCEPT ![t] =
                 [NoLoc EXCEPT !.name = name, !.format = format,
                               !.compression = compression, !.buf = BufferOf(nOps + 1),
                               !.raw = BufferOf(nOps + 1),
                               !.outputPath = GetOutputPath(name, format, compression),
                               !.preDumps = localDumps,
                               !.preDeleted = deletedCount,
                               !.preFinal = Content(disk, GetOutputPath(name, format, compression)),
                               !.preEvicted = Len(evicted),
                               !.preSize = size[name]]]
    /\ UNCHANGED <<cri, k8s, cfg, dirState, disk, localDumps, deletedCount, ret, size, observerLog,
                   telemetry, seeded, persisted, evicted, flushed>>

\* lines 169-172: the lock is taken and the output path is computed
PersistBegin(t, name, format, compression) ==
    /\ pc[Ctor] = "done"
    /\ Caller(t)
    /\ mutex = NoLock
    /\ FirstUse(name)
    /\ nOps < MaxOps
    /\ nOps' = nOps + 1
    /\ mutex' = t
    /\ pc' = [pc EXCEPT ![t] = "compress"]
    /\ loc' = [loc EXCEPT ![t] =
                 [NoLoc EXCEPT !.name = name, !.format = format,
                               !.compression = compression, !.buf = BufferOf(nOps + 1),
                               !.raw = BufferOf(nOps + 1),
                               !.outputPath = GetOutputPath(name, format, compression),
                               !.preDumps = localDumps,
                               !.preDeleted = deletedCount,
                               !.preFinal = Content(disk, GetOutputPath(name, format, compression)),
                               !.preEvicted = Len(evicted),
                               !.preSize = size[name]]]
    /\ UNCHANGED <<cri, k8s, cfg, dirState, disk, localDumps, deletedCount, ret, size, observerLog,
                   telemetry, seeded, persisted, evicted, flushed>>

\* mutant: the temporary file is created before the buffer is compressed
PersistCompressAfterCreate(t, fails) ==
    /\ pc[t] = "compress"
    /\ fails => CanFail /\ loc[t].compression
    /\ Spend(fails)
    /\ disk' = WriteFile(disk, TmpPath(loc[t].outputPath), <<>>)
    /\ IF fails
       THEN /\ Return(t, "err_compress")
            /\ UNCHANGED <<size, dirState>>
       ELSE LET raw == IF loc[t].compression THEN Compress(loc[t].raw) ELSE loc[t].raw
            IN  /\ size' = [size EXCEPT ![loc[t].name] = Len(raw)]
                /\ dirState' = IF dirState \in {"unset", "absent"} THEN "present" ELSE dirState
                /\ loc' = [loc EXCEPT ![t].raw = raw]
                /\ pc' = [pc EXCEPT ![t] = "create"]
                /\ UNCHANGED <<ret, mutex>>
    /\ UNCHANGED <<cri, k8s, cfg, localDumps, deletedCount, observerLog, telemetry, seeded,
                   persisted, evicted, flushed>>

\* mutant: the size is taken from the buffer as it came in
PersistCompressSizeOfInput(t, fails) ==
    /\ pc[t] = "compress"
    /\ fails => CanFail /\ loc[t].compression
    /\ Spend(fails)
    /\ IF fails
       THEN /\ Return(t, "err_compress")
            /\ UNCHANGED <<size, dirState>>
       ELSE LET raw == IF loc[t].compression THEN Compress(loc[t].raw) ELSE loc[t].raw
            IN  /\ size' = [size EXCEPT ![loc[t].name] = Len(loc[t].raw)]
                /\ dirState' = IF dirState \in {"unset", "absent"} THEN "present" ELSE dirState
                /\ loc' = [loc EXCEPT ![t].raw = raw]
                /\ pc' = [pc EXCEPT ![t] = "create"]
                /\ UNCHANGED <<ret, mutex>>
    /\ UNCHANGED <<cri, k8s, cfg, disk, localDumps, deletedCount, observerLog, telemetry, seeded,
                   persisted, evicted, flushed>>

\* mutant: the size of the dump is set before the buffer is compressed
PersistCompressSizeFirst(t, fails) ==
    /\ pc[t] = "compress"
    /\ fails => CanFail /\ loc[t].compression
    /\ Spend(fails)
    /\ IF fails
       THEN /\ Return(t, "err_compress")
            /\ size' = [size EXCEPT ![loc[t].name] = Len(loc[t].raw)]
            /\ UNCHANGED dirState
       ELSE LET raw == IF loc[t].compression THEN Compress(loc[t].raw) ELSE loc[t].raw
            IN  /\ size' = [size EXCEPT ![loc[t].name] = Len(raw)]
                /\ dirState' = IF dirState \in {"unset", "absent"} THEN "present" ELSE dirState
                /\ loc' = [loc EXCEPT ![t].raw = raw]
                /\ pc' = [pc EXCEPT ![t] = "create"]
                /\ UNCHANGED <<ret, mutex>>
    /\ UNCHANGED <<cri, k8s, cfg, disk, localDumps, deletedCount, observerLog, telemetry, seeded,
                   persisted, evicted, flushed>>

\* lines 174-187: the buffer is compressed when the request asks for it
\* (fails: compressWithGZip returns an error), the size of the dump is set
\* and the directory is created
PersistCompress(t, fails) ==
    /\ pc[t] = "compress"
    /\ fails => CanFail /\ loc[t].compression
    /\ Spend(fails)
    /\ IF fails
       THEN /\ Return(t, "err_compress")
            /\ UNCHANGED <<size, dirState>>
       ELSE LET raw == IF loc[t].compression THEN Compress(loc[t].raw) ELSE loc[t].raw
            IN  /\ size' = [size EXCEPT ![loc[t].name] = Len(raw)]
                /\ dirState' = IF dirState \in {"unset", "absent"} THEN "present" ELSE dirState
                /\ loc' = [loc EXCEPT ![t].raw = raw]
                /\ pc' = [pc EXCEPT ![t] = "create"]
                /\ UNCHANGED <<ret, mutex>>
    /\ UNCHANGED <<cri, k8s, cfg, disk, localDumps, deletedCount, observerLog, telemetry, seeded,
                   persisted, evicted, flushed>>

\* lines 189-193: os.Create of the temporary file
PersistCreate(t, fails) ==
    /\ pc[t] = "create"
    /\ fails => CanFail
    /\ Spend(fails)
    /\ IF fails
       THEN /\ Return(t, "err_create")
            /\ disk' = disk
       ELSE /\ disk' = WriteFile(disk, TmpPath(loc[t].outputPath), <<>>)
            /\ pc' = [pc EXCEPT ![t] = "chmod"]
            /\ UNCHANGED <<loc, ret, mutex>>
    /\ UNCHANGED <<cri, k8s, cfg, dirState, localDumps, deletedCount, size, observerLog, telemetry,
                   seeded, persisted, evicted, flushed>>

\* lines 196-198: os.Chmod of the temporary file
PersistChmod(t, fails) ==
    /\ pc[t] = "chmod"
    /\ fails => CanFail
    /\ Spend(fails)
    /\ IF fails
       THEN Return(t, "err_chmod")
       ELSE /\ pc' = [pc EXCEPT ![t] = "write"]
            /\ UNCHANGED <<loc, ret, mutex>>
    /\ UNCHANGED <<cri, k8s, cfg, dirState, disk, localDumps, deletedCount, size, observerLog, telemetry,
                   seeded, persisted, evicted, flushed>>

\* mutant: a failed write removes the temporary file
PersistWriteCleansUp(t, written) ==
    /\ pc[t] = "write"
    /\ written \in 0..Len(loc[t].raw)
    /\ written < Len(loc[t].raw) => CanFail
    /\ Spend(written < Len(loc[t].raw))
    /\ IF written < Len(loc[t].raw)
       THEN /\ disk' = RemoveFile(disk, TmpPath(loc[t].outputPath))
            /\ Return(t, "err_write")
       ELSE /\ disk' = WriteFile(disk, TmpPath(loc[t].outputPath), loc[t].raw)
            /\ pc' = [pc EXCEPT ![t] = "close"]
            /\ UNCHANGED <<loc, ret, mutex>>
    /\ UNCHANGED <<cri, k8s, cfg, dirState, localDumps, deletedCount, size, observerLog, telemetry,
                   seeded, persisted, evicted, flushed>>

\* lines 201-203: file.Write; a failed write leaves the first `written`
\* bytes, fewer than the buffer holds, in the temporary file
PersistWrite(t, written) ==
    /\ pc[t] = "write"
    /\ written \in 0..Len(loc[t].raw)
    /\ written < Len(loc[t].raw) => CanFail
    /\ Spend(written < Len(loc[t].raw))
    /\ disk' = WriteFile(disk, TmpPath(loc[t].outputPath), SubSeq(loc[t].raw, 1, written))
    /\ IF written < Len(loc[t].raw)
       THEN Return(t, "err_write")
       ELSE /\ pc' = [pc EXCEPT ![t] = "close"]
            /\ UNCHANGED <<loc, ret, mutex>>
    /\ UNCHANGED <<cri, k8s, cfg, dirState, localDumps, deletedCount, size, observerLog, telemetry,
                   seeded, persisted, evicted, flushed>>

\* lines 205-207: file.Close
PersistClose(t, fails) ==
    /\ pc[t] = "close"
    /\ fails => CanFail
    /\ Spend(fails)
    /\ IF fails
       THEN Return(t, "err_close")
       ELSE /\ pc' = [pc EXCEPT ![t] = "rename"]
            /\ UNCHANGED <<loc, ret, mutex>>
    /\ UNCHANGED <<cri, k8s, cfg, dirState, disk, localDumps, deletedCount, size, observerLog, telemetry,
                   seeded, persisted, evicted, flushed>>

\* the directory after os.Rename(from, to)
Rename(d, from, to) ==
    [g \in (DOMAIN d \ {from}) \cup {to} |-> IF g = to THEN d[from] ELSE d[g]]

\* mutant: the path is added to the LRU before the error of os.Rename is looked at
PersistRenameRegistersFirst(t, fails) ==
    /\ pc[t] = "rename"
    /\ fails => CanFail
    /\ Spend(fails)
    /\ IF fails
       THEN /\ Return(t, "err_rename")
            /\ disk' = disk
            /\ localDumps' = LRUAdd(localDumps, LRUSize, Key(loc[t].name), <<loc[t].outputPath>>).lru
       ELSE /\ disk' = Rename(disk, TmpPath(loc[t].outputPath), loc[t].outputPath)
            /\ pc' = [pc EXCEPT ![t] = "register"]
            /\ UNCHANGED <<loc, ret, mutex, localDumps>>
    /\ UNCHANGED <<cri, k8s, cfg, dirState, deletedCount, size, observerLog, telemetry,
                   seeded, persisted, evicted, flushed>>

\* lines 209-211: os.Rename of the temporary file to the output path
PersistRename(t, fails) ==
    /\ pc[t] = "rename"
    /\ fails => CanFail
    /\ Spend(fails)
    /\ IF fails
       THEN /\ Return(t, "err_rename")
            /\ disk' = disk
       ELSE /\ disk' = Rename(disk, TmpPath(loc[t].outputPath), loc[t].outputPath)
            /\ pc' = [pc EXCEPT ![t] = "register"]
            /\ UNCHANGED <<loc, ret, mutex>>
    /\ UNCHANGED <<cri, k8s, cfg, dirState, localDumps, deletedCount, size, observerLog, telemetry,
                   seeded, persisted, evicted, flushed>>

\* mutant: the dump is looked up without touching its recency
\* (simplelru.LRU.Peek instead of Get)
RegisterWithPeek(l, maxDumps, name, outputPath) ==
    IF Key(name) \notin Keys(l)
    THEN LRUAdd(l, maxDumps, Key(name), <<outputPath>>)
    ELSE [lru |-> SetFiles(l, Key(name), Append(l[IndexOf(l, Key(name))].files, outputPath)),
          evicted |-> <<>>]

\* mutant: a dump the LRU holds gets the output path as its only file
RegisterReplaces(l, maxDumps, name, outputPath) ==
    LET got == LRUGet(l, Key(name)) IN
    IF ~got.ok
    THEN LRUAdd(got.lru, maxDumps, Key(name), <<outputPath>>)
    ELSE [lru |-> SetFiles(got.lru, Key(name), <<outputPath>>), evicted |-> <<>>]

\* mutant: on a full LRU the dump that is added is the one that leaves
RegisterEvictsNewest(l, maxDumps, name, outputPath) ==
    LET got == LRUGet(l, Key(name)) IN
    IF ~got.ok
    THEN IF Len(l) >= maxDumps
         THEN [lru |-> l, evicted |-> <<[key |-> Key(name), files |-> <<outputPath>>]>>]
         ELSE LRUAdd(got.lru, maxDumps, Key(name), <<outputPath>>)
    ELSE [lru |-> SetFiles(got.lru, Key(name), Append(got.files, outputPath)), evicted |-> <<>>]

\* lines 216-223: the output path joins the files of the dump; a dump the
\* LRU does not hold yet is added, which may evict the oldest one
Register(l, maxDumps, name, outputPath) ==
    LET got == LRUGet(l, Key(name)) IN
    IF ~got.ok
    THEN LRUAdd(got.lru, maxDumps, Key(name), <<outputPath>>)
    ELSE [lru |-> SetFiles(got.lru, Key(name), Append(got.files, outputPath)), evicted |-> <<>>]

PersistRegister(t) ==
    /\ pc[t] = "register"
    /\ LET added == Register(localDumps, LRUSize, loc[t].name, loc[t].outputPath)
       IN  /\ localDumps' = added.lru
           /\ EnterCallback(t, added, loc[t])
    /\ UNCHANGED <<cri, k8s, cfg, dirState, disk, deletedCount, mutex, ret, size, observerLog,
                   telemetry, seeded, persisted, flushed, nOps>>

\* line 225 and the deferred Unlock
PersistReturn(t) ==
    /\ pc[t] = "persist_ret"
    /\ persisted' = Append(persisted, loc[t].name)
    /\ Return(t, "ok")
    /\ UNCHANGED <<cri, k8s, cfg, dirState, disk, localDumps, deletedCount, size, observerLog,
                   telemetry, seeded, evicted, flushed, nOps>>

(* ---------------------------- SendTelemetry --------------------------- *)
\* mutant: the counter is read (Load) and not reset
SwapKeeps(c) == [old |-> c, new |-> c]
\* mutant: the value returned is always 0
SwapReturnsZero(c) == [old |-> 0, new |-> 0]
\* atomic.Uint64.Swap(0): the old value is returned, the new value is 0
Swap(c) == [old |-> c, new |-> 0]

\* mutant: both metrics are sent whatever their value
SendTelemetryAlways(t) ==
    /\ pc[Ctor] = "done"
    /\ Caller(t)
    /\ mutex = NoLock
    /\ nOps < MaxOps
    /\ nOps' = nOps + 1
    /\ LET count == Len(localDumps)
           swapped == Swap(deletedCount)
       IN  /\ deletedCount' = swapped.new
           /\ flushed' = flushed + swapped.old
           /\ telemetry' = [gaugeSent |-> TRUE, gauge |-> count,
                            countSent |-> TRUE, count |-> swapped.old]
    /\ UNCHANGED <<cri, k8s, cfg, dirState, disk, localDumps, mutex, pc, loc, ret, size, observerLog,
                   seeded, persisted, evicted>>

\* mutant: reading the LRU makes its oldest entry the most recent
SendTelemetryTouchesOldest(t) ==
    /\ pc[Ctor] = "done"
    /\ Caller(t)
    /\ mutex = NoLock
    /\ nOps < MaxOps
    /\ nOps' = nOps + 1
    /\ localDumps' = IF localDumps = <<>> THEN localDumps
                     ELSE MoveToFront(localDumps, Len(localDumps))
    /\ LET count == Len(localDumps)
           swapped == Swap(deletedCount)
       IN  /\ deletedCount' = swapped.new
           /\ flushed' = flushed + swapped.old
           /\ telemetry' = [gaugeSent |-> count > 0, gauge |-> IF count > 0 THEN count ELSE 0,
                            countSent |-> swapped.old > 0,
                            count |-> IF swapped.old > 0 THEN swapped.old ELSE 0]
    /\ UNCHANGED <<cri, k8s, cfg, dirState, disk, mutex, pc, loc, ret, size, observerLog,
                   seeded, persisted, evicted>>

\* lines 229-242, under the lock from the first to the last line
SendTelemetry(t) ==
    /\ pc[Ctor] = "done"
    /\ Caller(t)
    /\ mutex = NoLock
    /\ nOps < MaxOps
    /\ nOps' = nOps + 1
    /\ LET count == Len(localDumps)
           swapped == Swap(deletedCount)
       IN  /\ deletedCount' = swapped.new
           /\ flushed' = flushed + swapped.old
           /\ telemetry' = [gaugeSent |-> count > 0, gauge |-> IF count > 0 THEN count ELSE 0,
                            countSent |-> swapped.old > 0,
                            count |-> IF swapped.old > 0 THEN swapped.old ELSE 0]
    /\ UNCHANGED <<cri, k8s, cfg, dirState, disk, localDumps, mutex, pc, loc, ret, size, observerLog,
                   seeded, persisted, evicted>>

(* --------------------------- specification ---------------------------- *)
Construct ==
    \/ NewFailsOnSize
    \/ NewWithoutDirectory
    \/ \E mkdirFails \in BOOLEAN : NewListFails(mkdirFails)
    \/ \E infoFails \in SUBSET DOMAIN disk : NewSnapshot(infoFails)
    \/ NewAdd
    \/ NewReturn

Callback ==
    \/ \E e \in Execs : CbNotify(e)
    \/ \E e \in Execs : CbRemove(e, FALSE)
    \/ \E e \in Execs : CbInc(e)

PersistCall ==
    \/ \E t \in Threads, name \in Names, format \in ReqFormats, compression \in BOOLEAN :
            PersistBegin(t, name, format, compression)
    \/ \E t \in Threads, fails \in BOOLEAN : PersistCompress(t, fails)
    \/ \E t \in Threads, fails \in BOOLEAN : PersistCreate(t, fails)
    \/ \E t \in Threads, fails \in BOOLEAN : PersistChmod(t, fails)
    \/ \E t \in Threads : \E written \in 0..Len(loc[t].raw) : PersistWrite(t, written)
    \/ \E t \in Threads, fails \in BOOLEAN : PersistClose(t, fails)
    \/ \E t \in Threads, fails \in BOOLEAN : PersistRename(t, fails)
    \/ \E t \in Threads : PersistRegister(t)
    \/ \E t \in Threads : PersistReturn(t)

Next ==
    \/ Construct
    \/ Callback
    \/ PersistCall
    \/ \E t \in Threads : SendTelemetry(t)

Spec == Init /\ [][Next]_vars

\* the same program where, in addition, os.Remove can fail on a file that
\* is there
CallbackRemoveFails == \E e \in Execs : CbRemove(e, TRUE)

NextRemoveFault ==
    \/ Next
    \/ CallbackRemoveFails

SpecRemoveFault == Init /\ [][NextRemoveFault]_vars

\* the program started on a directory that may hold a stray temporary file
SpecStrayTmp == InitStrayTmp /\ [][Next]_vars

\* the program started on a directory that may hold up to three dumps
SpecManyDumps == InitManyDumps /\ [][Next]_vars

\* the steps of a call of Persist that has the lock, and of the callback
Running ==
    \/ Callback
    \/ \E t \in Threads, fails \in BOOLEAN : PersistCompress(t, fails)
    \/ \E t \in Threads, fails \in BOOLEAN : PersistCreate(t, fails)
    \/ \E t \in Threads, fails \in BOOLEAN : PersistChmod(t, fails)
    \/ \E t \in Threads : \E written \in 0..Len(loc[t].raw) : PersistWrite(t, written)
    \/ \E t \in Threads, fails \in BOOLEAN : PersistClose(t, fails)
    \/ \E t \in Threads, fails \in BOOLEAN : PersistRename(t, fails)
    \/ \E t \in Threads : PersistRegister(t)
    \/ \E t \in Threads : PersistReturn(t)

\* the largest size of the LRU where termination is checked
LiveCapacity == 1

\* the directory at startup holds at most one dump file, and the manager has
\* a security profile manager
InitLive ==
    /\ StartWith(DisksOf({<<"d1", "json">>}))
    /\ cfg.hasObserver
    /\ cfg.maxDumps <= LiveCapacity

\* a goroutine inside Persist goes on running: its system calls return
SpecLive == InitLive /\ [][Next]_vars /\ WF_vars(Running)

(* ------------------------- words for the claims ----------------------- *)
Last(q) == q[Len(q)]
KeySeq(l) == [i \in 1..Len(l) |-> l[i].key]
Reverse(q) == [i \in 1..Len(q) |-> q[Len(q) + 1 - i]]
\* the last n elements of q, or all of q when it is shorter
Suffix(q, n) == IF Len(q) <= n THEN q ELSE SubSeq(q, Len(q) - n + 1, Len(q))
Distinct(q) == \A i, j \in DOMAIN q : i # j => q[i] # q[j]
InCallback(e) == pc[e] \in {"cb_check", "cb_remove", "cb_inc"}
NoThreadActive == \A t \in Threads : pc[t] = "idle"
\* the constructor returned the storage and no call on it is in progress
Quiescent == pc[Ctor] = "done" /\ NoThreadActive
\* the positions of Persist before os.Rename has succeeded
PreCommit == {"compress", "create", "chmod", "write", "close", "rename"}
\* the bytes the Persist call of t is to leave at the output path
Intended(t) == IF loc[t].compression THEN Compress(loc[t].buf) ELSE loc[t].buf
\* the contents a complete file can have
CompleteData ==
    {SeedData} \cup {BufferOf(n) : n \in 1..MaxOps} \cup {Compress(BufferOf(n)) : n \in 1..MaxOps}
\* the files of an LRU entry are all gone from the directory
AllGone(files) == \A k \in DOMAIN files : ~Exists(files[k])
\* they are all gone but those on which os.Remove failed
GoneButKept(files, kept) == \A k \in DOMAIN files : Exists(files[k]) => files[k] \in kept

(* ------------------------------- claims ------------------------------- *)

\* C1: once the constructor has returned and no call is in progress, the
\* LRU holds at most the configured number of dumps.
C1_IndexWithinCapacity == Quiescent => Len(localDumps) <= cfg.maxDumps

\* C1 witness: a full LRU after evictions at startup and by Persist.
C1_Witness ==
    /\ Quiescent
    /\ Len(localDumps) = cfg.maxDumps
    /\ seeded # <<>>
    /\ persisted # <<>>
    /\ Len(evicted) >= 2

\* the run consisted of exactly maxDumps + 1 successful Persist calls with
\* pairwise distinct names on an empty directory, and of nothing else
C2_Scenario ==
    /\ Quiescent
    /\ cfg.maxDumps >= 1
    /\ Len(persisted) = cfg.maxDumps + 1
    /\ nOps = cfg.maxDumps + 1
    /\ Distinct(persisted)

\* C2: after N+1 successful Persist calls with distinct names on an empty
\* store of capacity N, the LRU holds exactly the N names persisted last,
\* no file of the first name is left and the deleted counter is 1.
C2_FirstDumpEvicted ==
    C2_Scenario =>
        /\ Len(localDumps) = cfg.maxDumps
        /\ KeySeq(localDumps) = Reverse([i \in 1..cfg.maxDumps |-> Key(persisted[i + 1])])
        /\ \A f \in DOMAIN disk : Head(f) # persisted[1]
        /\ deletedCount = 1

\* C2 witness: the scenario with the largest capacity.
C2_Witness == C2_Scenario /\ cfg.maxDumps = MaxCapacity

\* C3 as stated: no two entries of the LRU have the same dump name, and
\* once the callback has gone through the files of an evicted entry none of
\* them is left in the directory.
C3_AsStated ==
    /\ Distinct(KeySeq(localDumps))
    /\ \A e \in Execs : pc[e] = "cb_inc" => AllGone(loc[e].cbFiles)
    /\ \A t \in Threads :
          pc[t] = "persist_ret" /\ Len(evicted) > loc[t].preEvicted => AllGone(Last(evicted).files)
    /\ pc[Ctor] = "new_add" /\ evicted # <<>> => AllGone(Last(evicted).files)

\* C3: no two entries of the LRU have the same dump name, and once the
\* callback has gone through the files of an evicted entry, the only files
\* of the entry left in the directory are those on which os.Remove failed.
C3_RemovedUnlessRemoveFails ==
    /\ Distinct(KeySeq(localDumps))
    /\ \A e \in Execs : pc[e] = "cb_inc" => GoneButKept(loc[e].cbFiles, loc[e].cbKept)
    /\ \A t \in Threads :
          pc[t] = "persist_ret" /\ Len(evicted) > loc[t].preEvicted =>
              GoneButKept(Last(evicted).files, loc[t].cbKept)
    /\ pc[Ctor] = "new_add" /\ evicted # <<>> =>
          GoneButKept(Last(evicted).files, loc[Ctor].cbKept)

\* C3 witness: Persist is about to return after the eviction of a dump with
\* a plain and a compressed file, one removed and one left by a failed
\* os.Remove.
C3_Witness ==
    \E t \in Threads :
        /\ pc[t] = "persist_ret"
        /\ Len(evicted) > loc[t].preEvicted
        /\ \E i, j \in DOMAIN Last(evicted).files :
              /\ Ext(Last(evicted).files[i]) = "gz"
              /\ Ext(Last(evicted).files[j]) # "gz"
              /\ Exists(Last(evicted).files[i]) # Exists(Last(evicted).files[j])

\* C4: outside the callback, the values SendTelemetry swapped out plus the
\* value of the counter add up to the number of evictions: every eviction is
\* flushed once.
C4_FlushExact ==
    (\A e \in Execs : ~InCallback(e)) => flushed + deletedCount = Len(evicted)

\* C4 witness: evictions before and after a flush.
C4_Witness == Quiescent /\ flushed > 0 /\ deletedCount > 0

\* C5: while Persist runs, the output path holds what it held when the call
\* started until os.Rename has succeeded, and the intended bytes from then
\* on; a file that is not a ".tmp" file always holds complete data.
C5_AtomicCommit ==
    /\ \A t \in Threads :
          pc[t] # "idle" =>
              Content(disk, loc[t].outputPath) =
                  IF pc[t] \in PreCommit THEN loc[t].preFinal ELSE <<Intended(t)>>
    /\ \A f \in DOMAIN disk : Ext(f) # "tmp" => disk[f].data \in CompleteData

\* C5 witness: Persist is about to return having replaced an older file with
\* other bytes, while a failed write has left half a buffer in a ".tmp" file.
C5_Witness ==
    \E t \in Threads :
        /\ pc[t] = "persist_ret"
        /\ loc[t].preFinal # <<>>
        /\ loc[t].preFinal # <<Intended(t)>>
        /\ \E f \in DOMAIN disk : Ext(f) = "tmp" /\ Len(disk[f].data) = 1

ErrAfterCreate == {"err_create", "err_chmod", "err_write", "err_close", "err_rename"}
FromCreate == {"create", "chmod", "write", "close", "rename"}

\* C6: a failure of os.Create, os.Chmod, Write, Close or os.Rename ends
\* Persist with the error, and the LRU, the evictions and the deleted
\* counter are as the call found them.
C6_FailureLeavesIndex ==
    [][\A t \in Threads :
          /\ pc[t] \in FromCreate /\ nOps' # nOps => pc'[t] = "idle"
          /\ pc[t] \in FromCreate /\ pc'[t] = "idle" =>
                /\ ret' \in ErrAfterCreate
                /\ localDumps' = loc[t].preDumps
                /\ deletedCount' = loc[t].preDeleted
                /\ Len(evicted') = loc[t].preEvicted
                /\ persisted' = persisted]_vars

\* C6 witness: os.Rename failed for a dump that is not in the full LRU.
C6_Witness ==
    /\ Quiescent
    /\ ret = "err_rename"
    /\ Len(localDumps) = cfg.maxDumps
    /\ \E f \in DOMAIN disk :
          Ext(f) = "tmp" /\ DumpNameOf(TrimSuffix(f, "tmp")) \notin Keys(localDumps)

\* C7: when compressWithGZip fails Persist returns its error at once: the
\* directory, the LRU and the deleted counter are as the call found them.
C7_CompressFailure ==
    [][\A t \in Threads :
          /\ pc[t] = "compress" /\ nOps' # nOps => pc'[t] = "idle"
          /\ pc[t] = "compress" /\ pc'[t] = "idle" =>
                /\ ret' = "err_compress"
                /\ disk' = disk
                /\ Content(disk', loc[t].outputPath) = loc[t].preFinal
                /\ localDumps' = loc[t].preDumps
                /\ deletedCount' = loc[t].preDeleted
                /\ persisted' = persisted]_vars

\* C7 witness: a failed compression on a store that holds dumps.
C7_Witness == Quiescent /\ ret = "err_compress" /\ localDumps # <<>> /\ disk # <<>>

\* C8: when Persist is about to return nil for a name the LRU did not hold
\* while it was full, exactly the least recently used entry has been
\* evicted, its files are gone, the observer has its paths and the counter
\* is one higher; otherwise nothing has been evicted.
C8_EvictsExactlyLRU ==
    \A t \in Threads :
        pc[t] = "persist_ret" =>
            LET pre == loc[t].preDumps
                key == Key(loc[t].name)
            IN  IF key \notin Keys(pre) /\ Len(pre) >= cfg.maxDumps
                THEN /\ Len(evicted) = loc[t].preEvicted + 1
                     /\ Last(evicted) = Last(pre)
                     /\ Keys(localDumps) = (Keys(pre) \ {Last(pre).key}) \cup {key}
                     /\ AllGone(Last(evicted).files)
                     /\ cfg.hasObserver =>
                           /\ Len(observerLog) = Len(evicted)
                           /\ Last(observerLog) = Last(evicted).files
                     /\ deletedCount = loc[t].preDeleted + 1
                ELSE /\ Len(evicted) = loc[t].preEvicted
                     /\ Keys(localDumps) = Keys(pre) \cup {key}
                     /\ deletedCount = loc[t].preDeleted

\* C8 witness: Persist is about to return for a new name on a full LRU of
\* two dumps.
C8_Witness ==
    \E t \in Threads :
        /\ pc[t] = "persist_ret"
        /\ Key(loc[t].name) \notin Keys(loc[t].preDumps)
        /\ Len(loc[t].preDumps) = cfg.maxDumps
        /\ cfg.maxDumps >= 2
        /\ cfg.hasObserver

\* C9: in the callback the observer is told first, with all the paths of the
\* entry and while all its files are still there; then the files are
\* removed one after the other; the counter goes up by one, whatever the
\* number of files, only when all of them are gone.
C9_CallbackOrder ==
    \A e \in Execs :
        LET files == loc[e].cbFiles
            i == loc[e].cbI
            told == cfg.hasObserver =>
                        Len(observerLog) = Len(evicted) /\ Last(observerLog) = files
            notCounted == flushed + deletedCount = Len(evicted) - 1
        IN  /\ InCallback(e) => files = Last(evicted).files /\ notCounted
            /\ pc[e] = "cb_check" =>
                  /\ cfg.hasObserver => Len(observerLog) = Len(evicted) - 1
                  /\ \A k \in DOMAIN files : Exists(files[k])
            /\ pc[e] = "cb_remove" =>
                  /\ told
                  /\ \A k \in DOMAIN files : k < i => ~Exists(files[k])
                  /\ \A k \in DOMAIN files :
                        k >= i => Exists(files[k]) \/ \E j \in 1..(i - 1) : files[j] = files[k]
            /\ pc[e] = "cb_inc" => told /\ AllGone(files)
            /\ pc[e] \in {"new_add", "persist_ret"} => flushed + deletedCount = Len(evicted)

\* C9 witness: the callback is about to count an entry of two files that an
\* observer was told of.
C9_Witness ==
    \E e \in Execs :
        /\ pc[e] = "cb_inc"
        /\ Len(loc[e].cbFiles) >= 2
        /\ cfg.hasObserver

\* C10: the LRU is ordered by last use: the dumps found at startup in the
\* order the constructor added them, and a Persist moves its dump to the
\* front whether the LRU held it or not, the last dump leaving when a new
\* one does not fit.
C10_RecencyOrder ==
    /\ NoThreadActive /\ persisted = <<>> =>
          KeySeq(localDumps) = Reverse(Suffix(seeded, cfg.maxDumps))
    /\ \A t \in Threads :
          pc[t] = "persist_ret" =>
              LET pre == loc[t].preDumps
                  key == Key(loc[t].name)
              IN  KeySeq(localDumps) =
                      IF key \in Keys(pre)
                      THEN <<key>> \o KeySeq(Without(pre, IndexOf(pre, key)))
                      ELSE IF Len(pre) >= cfg.maxDumps
                      THEN <<key>> \o KeySeq(SubSeq(pre, 1, Len(pre) - 1))
                      ELSE <<key>> \o KeySeq(pre)

\* C10 witness: d1 was persisted first and again after d2, and the Persist
\* of d3 evicted d2 from an LRU of two dumps.
C10_Witness ==
    /\ Quiescent
    /\ cfg.maxDumps = 2
    /\ seeded = <<>>
    /\ persisted = <<"d1", "d2", "d1", "d3">>
    /\ KeySeq(localDumps) = <<Key("d3"), Key("d1")>>
    /\ Len(evicted) = 1
    /\ evicted[1].key = Key("d2")


\* a step of SendTelemetry: the only step that does work and moves no executor
IsSendTelemetry == pc' = pc /\ nOps' # nOps

\* C11: a goroutine inside Persist holds the lock and the other goroutine
\* is outside; the callback runs with the lock held; when the lock is free
\* every eviction is complete and counted; SendTelemetry runs only when
\* nobody is inside Persist or the callback.
C11_CallbackInCriticalSection ==
    /\ [](/\ \A t \in Threads :
               pc[t] # "idle" => mutex = t /\ \A u \in Threads \ {t} : pc[u] = "idle"
          /\ pc[Ctor] = "done" /\ mutex = NoLock =>
                /\ \A e \in Execs : ~InCallback(e)
                /\ flushed + deletedCount = Len(evicted))
    /\ [][IsSendTelemetry =>
             /\ \A e \in Execs : ~InCallback(e)
             /\ NoThreadActive
             /\ flushed + deletedCount = Len(evicted)]_vars

\* C11 witness: a goroutine is removing the files of an evicted dump under
\* the lock, after a SendTelemetry of the other goroutine.
C11_Witness ==
    \E t \in Threads :
        /\ pc[t] = "cb_remove"
        /\ mutex = t
        /\ telemetry.gaugeSent


\* C12: SendTelemetry reports the evictions since the previous flush and
\* leaves the counter at zero, and the counter moves only at the end of a
\* callback and in SendTelemetry: a SendTelemetry that follows another with
\* no eviction in between finds zero and reports no deleted dump.
C12_SecondFlushReportsZero ==
    [][/\ IsSendTelemetry =>
             /\ deletedCount = Len(evicted) - flushed
             /\ telemetry'.count = deletedCount
             /\ telemetry'.countSent = (deletedCount > 0)
             /\ deletedCount' = 0
       /\ deletedCount' # deletedCount =>
             \/ IsSendTelemetry
             \/ \E e \in Execs : pc[e] = "cb_inc" /\ pc'[e] # "cb_inc"]_vars

\* C12 witness: no Persist was ever called; a SendTelemetry flushed the one
\* eviction of the constructor and a second one reported none.
C12_Witness ==
    /\ Quiescent
    /\ persisted = <<>>
    /\ ret = "ok"
    /\ flushed = 1
    /\ Len(evicted) = 1
    /\ deletedCount = 0
    /\ ~telemetry.countSent

\* C13: SendTelemetry sends the gauge of localDumps.Len() exactly when it is
\* positive and the count of deleted dumps exactly when the swapped value is
\* positive, and it leaves the counter at zero in every case.
C13_TelemetryOnlyWhenPositive ==
    [][IsSendTelemetry =>
          /\ telemetry'.gaugeSent = (Len(localDumps) > 0)
          /\ telemetry'.gaugeSent => telemetry'.gauge = Len(localDumps)
          /\ telemetry'.countSent = (deletedCount > 0)
          /\ telemetry'.countSent => telemetry'.count = deletedCount
          /\ deletedCount' = 0]_vars

\* C13 witness: the last SendTelemetry found dumps in the LRU and none
\* deleted: it sent the gauge and no count.
C13_Witness ==
    /\ Quiescent
    /\ telemetry.gaugeSent
    /\ telemetry.gauge = Len(localDumps)
    /\ ~telemetry.countSent
    /\ flushed = 0
    /\ evicted = <<>>
    /\ persisted # <<>>


\* the latest modification time among files found at startup
MaxMTime(files) ==
    CHOOSE m \in {SeedMTime(files[k]) : k \in DOMAIN files} :
        \A k \in DOMAIN files : SeedMTime(files[k]) <= m

\* C14 as stated: after the constructor, and before any Persist, every dump
\* the constructor evicted was modified earlier than every dump it kept.
C14_AsStated ==
    pc[Ctor] = "done" /\ persisted = <<>> /\ NoThreadActive =>
        \A i \in DOMAIN evicted, j \in DOMAIN localDumps :
            MaxMTime(evicted[i].files) <= MaxMTime(localDumps[j].files)

\* C15 as stated: when the snapshot is taken, the MTime of each dump is the
\* latest modification time of its files.
C15_AsStated ==
    pc[Ctor] = "new_add" =>
        \A i \in DOMAIN loc[Ctor].pending :
            loc[Ctor].pending[i].MTime = MaxMTime(loc[Ctor].pending[i].Files)


\* the files of the directory that dump number i of q holds
HeldBy(q, i) == {q[i].Files[k] : k \in DOMAIN q[i].Files}

\* C16: the snapshot has one dump for each name; the files of a dump are
\* files of the directory with a known extension whose first component is
\* the name of the dump, and a file with a known extension is in the dump of
\* that name unless its Info() failed; the LRU then has one entry for each
\* name, with these files.
C16_GroupedByName ==
    /\ pc[Ctor] = "new_add" /\ seeded = <<>> =>
          LET q == loc[Ctor].pending
              held == UNION {HeldBy(q, i) : i \in DOMAIN q}
          IN  /\ Distinct([i \in DOMAIN q |-> q[i].Name])
              /\ \A i \in DOMAIN q :
                    /\ Distinct(q[i].Files)
                    /\ \A f \in HeldBy(q, i) : Exists(f) /\ Known(f) /\ q[i].Name = <<Head(f)>>
              /\ Cardinality({f \in DOMAIN disk : Known(f)} \ held) = nOps - Cardinality(DOMAIN disk)
    /\ persisted = <<>> /\ NoThreadActive =>
          \A i \in DOMAIN localDumps :
              \A k \in DOMAIN localDumps[i].files :
                  localDumps[i].key = <<Head(localDumps[i].files[k])>>

\* C16 witness: d1.json and d1.json.gz are held by one dump, which has
\* entered the LRU next to the dump of another name.
C16_Witness ==
    /\ pc[Ctor] = "done"
    /\ persisted = <<>>
    /\ Len(localDumps) = 2
    /\ \E i \in DOMAIN localDumps :
          /\ localDumps[i].key = <<"d1">>
          /\ localDumps[i].files = << <<"d1", "json">>, <<"d1", "json", "gz">> >>


\* the extension of f is neither a storage format nor ".gz"
Unmanaged(f) == Ext(f) \notin StorageFormats \cup {"gz"}
\* f is in the directory as the program found it at startup
Untouched(f) == f \in DOMAIN disk /\ disk[f].data = SeedData
\* no dump of the snapshot, entry of the LRU or callback holds an unmanaged file
NoUnmanagedHeld ==
    /\ \A i \in DOMAIN localDumps :
          \A k \in DOMAIN localDumps[i].files : ~Unmanaged(localDumps[i].files[k])
    /\ \A i \in DOMAIN loc[Ctor].pending :
          \A k \in DOMAIN loc[Ctor].pending[i].Files : ~Unmanaged(loc[Ctor].pending[i].Files[k])
    /\ \A e \in Execs : \A k \in DOMAIN loc[e].cbFiles : ~Unmanaged(loc[e].cbFiles[k])

\* C17 as stated: a file of the startup directory whose extension is
\* neither a storage format nor ".gz" is never held by the LRU, and no step
\* of the program removes it or changes its content.
C17_AsStated ==
    /\ []NoUnmanagedHeld
    /\ [][\A f \in DOMAIN disk :
             Unmanaged(f) /\ Untouched(f) => f \in DOMAIN disk' /\ disk'[f] = disk[f]]_vars

\* C17: a file of the startup directory whose extension is neither a
\* storage format nor ".gz" is never held by the LRU, and the only step that
\* removes it or changes its content is the os.Create of a Persist whose
\* temporary path it is.
C17_SkippedUnlessTmpPath ==
    /\ []NoUnmanagedHeld
    /\ [][\A f \in DOMAIN disk :
             Unmanaged(f) /\ Untouched(f) =>
                 \/ f \in DOMAIN disk' /\ disk'[f] = disk[f]
                 \/ \E t \in Threads :
                       pc[t] = "create" /\ f = Append(loc[t].outputPath, "tmp")]_vars

\* C17 witness: notes.txt is as it was at startup after a Persist that
\* evicted a dump found at startup.
C17_Witness ==
    /\ Quiescent
    /\ Untouched(<<"notes", "txt">>)
    /\ persisted # <<>>
    /\ seeded # <<>>
    /\ evicted # <<>>
    /\ deletedCount > 0


CtorErrors == {"err_lru", "err_list", "err_mkdir"}

\* C18: the constructor fails exactly on a size that is not positive, on a
\* directory that cannot be listed and on an absent directory that cannot
\* be created; it then returns an error, no storage is ever used, and the
\* directory stays as it was.
C18_ConstructionFails ==
    /\ [](/\ pc[Ctor] = "failed" =>
                /\ ret \in CtorErrors
                /\ localDumps = <<>> /\ evicted = <<>> /\ deletedCount = 0
                /\ persisted = <<>> /\ NoThreadActive
          /\ cfg.maxDumps <= 0 \/ dirState = "unreadable" => pc[Ctor] \in {"new", "failed"})
    /\ [][/\ pc[Ctor] = "new" /\ pc'[Ctor] = "failed" =>
                /\ disk' = disk
                /\ \/ cfg.maxDumps <= 0 /\ ret' = "err_lru"
                   \/ cfg.maxDumps > 0 /\ dirState = "unreadable" /\ ret' = "err_list"
                   \/ cfg.maxDumps > 0 /\ dirState = "absent" /\ nOps' # nOps /\ ret' = "err_mkdir"
          /\ pc[Ctor] = "new" /\ (cfg.maxDumps <= 0 \/ dirState = "unreadable") =>
                pc'[Ctor] = "failed"
          /\ pc[Ctor] = "new" /\ dirState = "absent" /\ nOps' # nOps => pc'[Ctor] = "failed"
          /\ pc[Ctor] = "failed" => disk' = disk]_vars

\* C18 witness: the constructor has failed on a directory that holds files
\* and cannot be listed.
C18_Witness ==
    /\ pc[Ctor] = "failed"
    /\ ret = "err_list"
    /\ cfg.maxDumps > 0
    /\ \E f \in DOMAIN disk : Known(f)

\* C19: on an absent directory, and with a positive size, the constructor
\* creates the directory unless os.MkdirAll fails, goes on with no dump to
\* add, and returns the storage with an empty LRU and a counter of zero.
C19_AbsentDirectoryCreated ==
    /\ [](pc[Ctor] = "new_add" /\ loc[Ctor].madeDir =>
             /\ dirState = "present"
             /\ loc[Ctor].pending = <<>>
             /\ localDumps = <<>> /\ evicted = <<>> /\ deletedCount = 0)
    /\ [][/\ pc[Ctor] = "new" /\ dirState = "absent" /\ cfg.maxDumps > 0 /\ nOps' = nOps =>
                pc'[Ctor] = "new_add" /\ loc'[Ctor].madeDir /\ dirState' = "present"
          /\ pc[Ctor] = "new_add" /\ loc[Ctor].madeDir =>
                /\ pc'[Ctor] = "done" /\ ret' = "ok"
                /\ localDumps' = <<>> /\ deletedCount' = 0 /\ dirState' = "present"]_vars

\* C19 witness: the constructor has created the directory and is about to
\* return.
C19_Witness ==
    /\ pc[Ctor] = "new_add"
    /\ loc[Ctor].madeDir
    /\ dirState = "present"
    /\ localDumps = <<>>

\* C20: when os.Remove has failed on a file of the entry evicted by a
\* Persist that is about to return, the entry has left the LRU, every other
\* file of the entry is gone, the counter is one higher and Persist returns
\* nil; the same holds for an eviction by the constructor, which goes on.
C20_RemoveFailureTolerated ==
    /\ [](/\ \A t \in Threads :
               pc[t] = "persist_ret" /\ loc[t].cbKept # {} =>
                   /\ Len(evicted) = loc[t].preEvicted + 1
                   /\ Last(evicted).key \notin Keys(localDumps)
                   /\ GoneButKept(Last(evicted).files, loc[t].cbKept)
                   /\ deletedCount = loc[t].preDeleted + 1
          /\ pc[Ctor] = "new_add" /\ loc[Ctor].cbKept # {} =>
                   /\ Last(evicted).key \notin Keys(localDumps)
                   /\ GoneButKept(Last(evicted).files, loc[Ctor].cbKept)
                   /\ deletedCount = Len(evicted))
    /\ [][/\ \A t \in Threads : pc[t] = "persist_ret" /\ pc'[t] # "persist_ret" =>
                pc'[t] = "idle" /\ ret' = "ok"
          /\ \A e \in Execs : pc[e] = "cb_remove" /\ pc'[e] # "cb_remove" => pc'[e] = "cb_inc"
          /\ \A e \in Execs : pc[e] = "cb_remove" =>
                loc'[e].cbI = loc[e].cbI + 1 /\ loc'[e].cbFiles = loc[e].cbFiles]_vars

\* C20 witness: Persist is about to return nil after an eviction in which
\* os.Remove failed on the first of two files and removed the second.
C20_Witness ==
    \E t \in Threads :
        /\ pc[t] = "persist_ret"
        /\ Len(evicted) > loc[t].preEvicted
        /\ Len(Last(evicted).files) = 2
        /\ loc[t].cbKept = {Last(evicted).files[1]}
        /\ ~Exists(Last(evicted).files[2])
        /\ deletedCount = loc[t].preDeleted + 1


\* C21: an entry whose Info() fails does not end the constructor and is in
\* no dump of the snapshot, while every other file with a known extension
\* is in the dump of its name.
C21_InfoFailureSkipped ==
    /\ pc[Ctor] = "failed" /\ cfg.maxDumps > 0 => dirState \in {"absent", "unreadable"}
    /\ pc[Ctor] = "new_add" /\ seeded = <<>> =>
          LET q == loc[Ctor].pending
              held == UNION {HeldBy(q, i) : i \in DOMAIN q}
          IN  /\ held = {f \in DOMAIN disk : Known(f)} \ loc[Ctor].skipped
              /\ \A f \in held : \E i \in DOMAIN q : q[i].Name = <<Head(f)>> /\ f \in HeldBy(q, i)

\* C21 witness: Info() failed on d1.json, and the snapshot has d1 with
\* d1.json.gz alone next to d2.
C21_Witness ==
    /\ pc[Ctor] = "new_add"
    /\ seeded = <<>>
    /\ loc[Ctor].skipped = {<<"d1", "json">>}
    /\ Len(loc[Ctor].pending) = 2
    /\ \E i \in DOMAIN loc[Ctor].pending :
          loc[Ctor].pending[i].Files = << <<"d1", "json", "gz">> >>


\* the files the LRU l holds for key k
FilesOf(l, k) == l[IndexOf(l, k)].files

\* C22: when Persist is about to return nil for a name the LRU held, the
\* LRU holds the same names, the output path has been appended to the files
\* of the name, the files of the other names are as they were, and nothing
\* has been evicted.
C22_AppendsToExistingSet ==
    \A t \in Threads :
        pc[t] = "persist_ret" /\ Key(loc[t].name) \in Keys(loc[t].preDumps) =>
            LET pre == loc[t].preDumps
                key == Key(loc[t].name)
            IN  /\ Len(localDumps) = Len(pre)
                /\ Keys(localDumps) = Keys(pre)
                /\ FilesOf(localDumps, key) = Append(FilesOf(pre, key), loc[t].outputPath)
                /\ \A k \in Keys(pre) \ {key} : FilesOf(localDumps, k) = FilesOf(pre, k)
                /\ Len(evicted) = loc[t].preEvicted
                /\ deletedCount = loc[t].preDeleted

\* C22 witness: d1 was in a full LRU of two dumps with d1.json, and Persist
\* is about to return after writing d1.json.gz.
C22_Witness ==
    \E t \in Threads :
        /\ pc[t] = "persist_ret"
        /\ Len(loc[t].preDumps) = 2
        /\ cfg.maxDumps = 2
        /\ Key(loc[t].name) \in Keys(loc[t].preDumps)
        /\ FilesOf(loc[t].preDumps, Key(loc[t].name)) = <<GetOutputPath(loc[t].name, "json", FALSE)>>
        /\ loc[t].compression

\* C23: when Persist is about to return nil, the LRU holds the name with the
\* output path among its files, the file at the output path exists, and an
\* entry evicted by the call has another name and does not hold the path.
C23_EvictsAnotherDump ==
    \A t \in Threads :
        pc[t] = "persist_ret" =>
            LET key == Key(loc[t].name) IN
            /\ key \in Keys(localDumps)
            /\ \E k \in DOMAIN FilesOf(localDumps, key) :
                  FilesOf(localDumps, key)[k] = loc[t].outputPath
            /\ Exists(loc[t].outputPath)
            /\ Len(evicted) > loc[t].preEvicted =>
                  /\ Last(evicted).key # key
                  /\ \A k \in DOMAIN Last(evicted).files :
                        Last(evicted).files[k] # loc[t].outputPath

\* C23 witness: Persist is about to return after the eviction of a dump
\* found at startup.
C23_Witness ==
    \E t \in Threads :
        /\ pc[t] = "persist_ret"
        /\ Len(evicted) > loc[t].preEvicted
        /\ \E i \in DOMAIN seeded : seeded[i] = Last(evicted).key
        /\ Exists(loc[t].outputPath)
        /\ localDumps[1].key = Key(loc[t].name)


\* C24: when Persist is about to return nil, ad.Metadata.Size is the length
\* of the file at the output path: the length of the compressed buffer when
\* the request asks for compression, the length of the buffer otherwise.
C24_SizeIsFileLength ==
    \A t \in Threads :
        pc[t] = "persist_ret" =>
            /\ Exists(loc[t].outputPath)
            /\ size[loc[t].name] = Len(disk[loc[t].outputPath].data)
            /\ size[loc[t].name] =
                  IF loc[t].compression THEN Len(Compress(loc[t].buf)) ELSE Len(loc[t].buf)

\* C24 witness: Persist is about to return for a compressed dump whose size
\* was that of an uncompressed one before.
C24_Witness ==
    \E t \in Threads :
        /\ pc[t] = "persist_ret"
        /\ loc[t].compression
        /\ loc[t].preSize = Len(loc[t].buf)
        /\ size[loc[t].name] = Len(loc[t].buf) + 1


\* no entry of the LRU and no callback holds a ".tmp" path
NoTmpHeld ==
    /\ \A i \in DOMAIN localDumps :
          \A k \in DOMAIN localDumps[i].files : Ext(localDumps[i].files[k]) # "tmp"
    /\ \A e \in Execs : \A k \in DOMAIN loc[e].cbFiles : Ext(loc[e].cbFiles[k]) # "tmp"

\* C27: when Persist returns an error of os.Chmod, Write, Close or
\* os.Rename, the temporary file is in the directory and the output path
\* holds what it held when the call started; the LRU never holds a ".tmp"
\* path, and a ".tmp" file only leaves the directory by the os.Rename of a
\* Persist that succeeds.
C27_TmpLeftBehind ==
    /\ []NoTmpHeld
    /\ [][/\ \A t \in Threads :
                pc[t] \in {"chmod", "write", "close", "rename"} /\ pc'[t] = "idle" =>
                    /\ Append(loc[t].outputPath, "tmp") \in DOMAIN disk'
                    /\ Content(disk', loc[t].outputPath) = loc[t].preFinal
          /\ \A f \in DOMAIN disk :
                Ext(f) = "tmp" /\ f \notin DOMAIN disk' =>
                    \E t \in Threads :
                        /\ pc[t] = "rename" /\ pc'[t] = "register"
                        /\ f = Append(loc[t].outputPath, "tmp")]_vars

\* C27 witness: file.Close has failed for d1 after an earlier Persist of it:
\* the temporary file holds the new buffer, the output path the old one, and
\* nothing has been evicted.
C27_Witness ==
    /\ ret = "err_close"
    /\ evicted = <<>>
    /\ \E f \in DOMAIN disk :
          /\ Ext(f) = "tmp"
          /\ TrimSuffix(f, "tmp") \in DOMAIN disk
          /\ disk[TrimSuffix(f, "tmp")].data # disk[f].data
          /\ disk[f].data \in CompleteData


\* C28: a goroutine that is outside Persist does not hold the lock, and a
\* lock that is held is released: Persist, once started, returns, whether
\* it succeeds or fails.
C28_LockReleased ==
    /\ [](\A t \in Threads : pc[t] = "idle" => mutex # t)
    /\ \A t \in Threads : (mutex = t) ~> (mutex = NoLock /\ pc[t] = "idle")

\* C28 witness: after a Persist that failed in file.Write, another call of
\* Persist has the lock.
C28_Witness ==
    /\ ret = "err_write"
    /\ \E t \in Threads : mutex = t /\ pc[t] = "compress"


\* C29: a step of SendTelemetry leaves the LRU, with the files and the
\* order of its entries, and the directory as they are; it changes the
\* counter and what the statsd client is given, nothing else.
C29_TelemetryFrame ==
    [][IsSendTelemetry =>
          /\ localDumps' = localDumps
          /\ disk' = disk
          /\ dirState' = dirState
          /\ size' = size
          /\ evicted' = evicted
          /\ observerLog' = observerLog
          /\ mutex' = mutex]_vars

\* C29 witness: SendTelemetry ran between the Persist of a first dump and
\* the Persist of a second one, which evicted the first.
C29_Witness ==
    /\ Quiescent
    /\ seeded = <<>>
    /\ telemetry.gaugeSent
    /\ flushed = 0
    /\ Len(persisted) = 2
    /\ Len(evicted) = 1
    /\ evicted[1].key = Key(persisted[1])

\* C30 as stated: no entry of the LRU holds a path twice.
C30_AsStated ==
    \A i \in DOMAIN localDumps : Distinct(localDumps[i].files)


(* ======================= the CRI client: GetUtil ======================= *)

\* the goroutines that call GetUtil, and the calls of GetUtil followed
Goroutines == 1 .. 2
MaxCalls == 3

\* no CRIUtil: the nil pointer
NilUtil == 0

\* how CRIUtil.init gets to its connection: the return at line 60, 72 or 80,
\* or a connection from grpc.DialContext
DialOutcomes == {"nosocket", "nodialer", "nodial", "dialed"}

\* the positions of a caller inside CRIUtil.init with a connection dialed
WithConn == {"probe", "close", "connected"}
\* the positions of a caller past once.Do
PastOnce == {"trigger", "init", "ret"} \cup WithConn

\* the package at program start: globalCRIUtil is nil, once has not run, no
\* retrier is set up; hasSocket is whether cri_socket_path is configured
CriStart(hasSocket) ==
    [used |-> TRUE,
     hasSocket |-> hasSocket,
     once |-> "fresh",
     globalCRIUtil |-> NilUtil,
     objects |-> 0,
     setups |-> 0,
     status |-> "NeedSetup",
     openConns |-> 0,
     closedConns |-> 0,
     keptConns |-> 0,
     runtimeSet |-> FALSE,
     gpc |-> [g \in Goroutines |-> "idle"],
     gerr |-> [g \in Goroutines |-> FALSE],
     calls |-> 0,
     returned |-> <<>>]

\* the local storage is not constructed while the CRI client runs
InitCri ==
    /\ StorageStart({<<>>})
    /\ cfg = [maxDumps |-> 0, hasObserver |-> FALSE]
    /\ dirState = "unset"
    /\ \E hasSocket \in BOOLEAN : cri = CriStart(hasSocket)
    /\ k8s = NoK8s

At(g, where) == cri.used /\ cri.gpc[g] = where

\* a goroutine calls GetUtil
GetUtilCall(g) ==
    /\ At(g, "idle")
    /\ cri.calls < MaxCalls
    /\ cri' = [cri EXCEPT !.gpc[g] = "once", !.calls = @ + 1, !.gerr[g] = FALSE]
    /\ UNCHANGED <<storageVars, k8s>>

\* the caller that finds once fresh runs the function, the callers that find
\* it run go on, and a caller that finds it running waits
OnceUnguarded(g) ==
    /\ At(g, "once")
    /\ cri' = [cri EXCEPT !.once = "running", !.gpc[g] = "create"]
    /\ UNCHANGED <<storageVars, k8s>>

\* once.Do
OnceDo(g) ==
    /\ At(g, "once")
    /\ cri.once # "running"
    /\ cri' = IF cri.once = "fresh"
              THEN [cri EXCEPT !.once = "running", !.gpc[g] = "create"]
              ELSE [cri EXCEPT !.gpc[g] = "trigger"]
    /\ UNCHANGED <<storageVars, k8s>>

\* globalCRIUtil = &CRIUtil{...}: a new object, numbered in creation order
OnceCreate(g) ==
    /\ At(g, "create")
    /\ cri' = [cri EXCEPT !.objects = @ + 1,
                          !.globalCRIUtil = cri.objects + 1,
                          !.gpc[g] = "setup"]
    /\ UNCHANGED <<storageVars, k8s>>

\* SetupRetrier on the new object, after which the function of once.Do
\* returns and once is done
OnceSetup(g) ==
    /\ At(g, "setup")
    /\ cri' = [cri EXCEPT !.setups = @ + 1,
                          !.status = "Idle",
                          !.once = "done",
                          !.gpc[g] = "trigger"]
    /\ UNCHANGED <<storageVars, k8s>>

\* TriggerRetry up to the attempt: nil when the retrier is OK, an error when
\* it is not set up or when the delay since the last failure has not elapsed
\* (elapsed is the clock's answer), the attempt otherwise
TriggerRetry(g, elapsed) ==
    /\ At(g, "trigger")
    /\ cri' =
         CASE cri.status = "OK" ->
                [cri EXCEPT !.gpc[g] = "ret", !.gerr[g] = FALSE]
           [] cri.status = "NeedSetup" ->
                [cri EXCEPT !.gpc[g] = "ret", !.gerr[g] = TRUE]
           [] cri.status = "FailWillRetry" /\ ~elapsed ->
                [cri EXCEPT !.gpc[g] = "ret", !.gerr[g] = TRUE]
           [] OTHER ->
                [cri EXCEPT !.gpc[g] = "init"]
    /\ UNCHANGED <<storageVars, k8s>>

\* what the retrier does with an attempt that returned an error, and the
\* TriggerRetry of g returning it
AttemptFailed(c, g) ==
    [c EXCEPT !.status = "FailWillRetry", !.gerr[g] = TRUE, !.gpc[g] = "ret"]

\* mutant: a connection is dialed and handed back without being closed when
\* the attempt fails on it
CriInitProbeLeaks(g, detectFails, versionFails) ==
    /\ At(g, "probe")
    /\ cri' = IF detectFails \/ versionFails
              THEN AttemptFailed(cri, g)
              ELSE [cri EXCEPT !.gpc[g] = "connected"]
    /\ UNCHANGED <<storageVars, k8s>>

\* CRIUtil.init, lines 59-81: without a socket path, a dialer or a
\* connection the attempt returns its error; grpc.DialContext opens a
\* connection otherwise
CriInitDial(g, outcome) ==
    /\ At(g, "init")
    /\ outcome = "nosocket" <=> ~cri.hasSocket
    /\ cri' = IF outcome = "dialed"
              THEN [cri EXCEPT !.openConns = @ + 1, !.gpc[g] = "probe"]
              ELSE AttemptFailed(cri, g)
    /\ UNCHANGED <<storageVars, k8s>>

\* lines 83-89: detectAPIVersion, and version when it passed
CriInitProbe(g, detectFails, versionFails) ==
    /\ At(g, "probe")
    /\ cri' = [cri EXCEPT !.gpc[g] = IF detectFails \/ versionFails
                                     THEN "close" ELSE "connected"]
    /\ UNCHANGED <<storageVars, k8s>>

\* lines 89-98: conn.Close(), whose error is only logged, and the return of
\* the error of detectAPIVersion or version
CriInitClose(g) ==
    /\ At(g, "close")
    /\ cri' = AttemptFailed([cri EXCEPT !.openConns = @ - 1, !.closedConns = @ + 1], g)
    /\ UNCHANGED <<storageVars, k8s>>

\* lines 100-104: the runtime name and version are set and the attempt
\* returns nil with its connection in use; the retrier is OK from then on
CriInitDone(g) ==
    /\ At(g, "connected")
    /\ cri' = [cri EXCEPT !.runtimeSet = TRUE,
                          !.keptConns = @ + 1,
                          !.status = "OK",
                          !.gerr[g] = FALSE,
                          !.gpc[g] = "ret"]
    /\ UNCHANGED <<storageVars, k8s>>

\* CRIUtil.init
CriInit(g) ==
    \/ \E outcome \in DialOutcomes : CriInitDial(g, outcome)
    \/ \E detectFails, versionFails \in BOOLEAN : CriInitProbe(g, detectFails, versionFails)
    \/ CriInitClose(g)
    \/ CriInitDone(g)

\* GetUtil returns nil and the error, or globalCRIUtil
GetUtilReturn(g) ==
    /\ At(g, "ret")
    /\ cri' = [cri EXCEPT
                 !.returned = Append(@, [by |-> g,
                                         util |-> IF cri.gerr[g] THEN NilUtil
                                                  ELSE cri.globalCRIUtil,
                                         err |-> cri.gerr[g]]),
                 !.gpc[g] = "idle"]
    /\ UNCHANGED <<storageVars, k8s>>

GetUtil(g) ==
    \/ GetUtilCall(g)
    \/ OnceDo(g)
    \/ OnceCreate(g)
    \/ OnceSetup(g)
    \/ \E elapsed \in BOOLEAN : TriggerRetry(g, elapsed)
    \/ CriInit(g)
    \/ GetUtilReturn(g)

NextCri == \E g \in Goroutines : GetUtil(g)

SpecCri == InitCri /\ [][NextCri]_vars

\* C25: over any calls of GetUtil, one after the other or at once, at most
\* one CRIUtil is created and at most one retrier is set up, exactly one of
\* each as soon as a caller is past once.Do, and every call that returned
\* without an error returned that one object, which globalCRIUtil still is.
C25_OneSharedInstance ==
    /\ cri.objects <= 1
    /\ cri.setups <= 1
    /\ \A g \in Goroutines :
         cri.gpc[g] \in PastOnce =>
           /\ cri.objects = 1
           /\ cri.setups = 1
           /\ cri.globalCRIUtil = 1
    /\ \A i \in DOMAIN cri.returned :
         ~cri.returned[i].err =>
           /\ cri.returned[i].util = 1
           /\ cri.returned[i].util = cri.globalCRIUtil

\* C25 witness: a call has returned the object without an error, and two
\* goroutines are inside GetUtil at once, each about to return without an
\* error; one object and one retrier were made.
C25_Witness ==
    /\ cri.used
    /\ Len(cri.returned) = 1
    /\ ~cri.returned[1].err
    /\ cri.returned[1].util = cri.globalCRIUtil
    /\ \A g \in Goroutines : cri.gpc[g] = "ret" /\ ~cri.gerr[g]
    /\ cri.objects = 1
    /\ cri.setups = 1


(* ============ the pod transformer: the identifier of a static pod ======= *)

\* strings are sequences of bytes; the letters the names are made of
Alphabet == {97, 98}
MaxNameLen == 2
MaxHashCalls == 2

StringsOf(lo, hi) == UNION {[1 .. n -> Alphabet] : n \in lo .. hi}

\* host and pod names are not empty; namespace and cluster name may be
HostNames == StringsOf(1, MaxNameLen)
PodNames == StringsOf(1, MaxNameLen)
Namespaces == StringsOf(0, MaxNameLen - 1)
ClusterNames == StringsOf(0, MaxNameLen - 1)

\* a 64-bit unsigned value as its eight bytes, least significant first
Limbs == 1 .. 8
Byte == 256

\* fnv.New64: the 64-bit FNV-1 offset basis 0xcbf29ce484222325
Offset64 == <<37, 35, 34, 132, 228, 156, 242, 203>>

\* the 64-bit FNV prime 0x100000001b3 is 2^40 + Prime64Low
Prime64Low == 435
Prime64Shift == 5

RECURSIVE TimesSmall(_, _, _, _)
\* h * k modulo 2^64, from limb i on with the carry of the limbs below
TimesSmall(h, k, i, carry) ==
    IF i > 8 THEN <<>>
    ELSE LET v == h[i] * k + carry
         IN  <<v % Byte>> \o TimesSmall(h, k, i + 1, v \div Byte)

\* h * 2^40 modulo 2^64
ShiftLeft(h) == [i \in Limbs |-> IF i <= Prime64Shift THEN 0 ELSE h[i - Prime64Shift]]

RECURSIVE Plus(_, _, _, _)
\* a + b modulo 2^64
Plus(a, b, i, carry) ==
    IF i > 8 THEN <<>>
    ELSE LET v == a[i] + b[i] + carry
         IN  <<v % Byte>> \o Plus(a, b, i + 1, v \div Byte)

TimesPrime64(h) == Plus(TimesSmall(h, Prime64Low, 1, 0), ShiftLeft(h), 1, 0)

RECURSIVE Xor(_, _, _)
\* the exclusive or of the n low bits of a and b
Xor(a, b, n) ==
    IF n = 0 THEN 0
    ELSE ((a + b) % 2) + 2 * Xor(a \div 2, b \div 2, n - 1)

RECURSIVE Fnv64Write(_, _)
\* (*sum64).Write: for every byte, multiply by the prime, then xor the byte
\* into the low byte
Fnv64Write(h, data) ==
    IF data = <<>> THEN h
    ELSE LET m == TimesPrime64(h)
         IN  Fnv64Write([m EXCEPT ![1] = Xor(m[1], Head(data), 8)], Tail(data))

HexDigit(d) == SubSeq(<<"0", "1", "2", "3", "4", "5", "6", "7",
                        "8", "9", "a", "b", "c", "d", "e", "f">>, d + 1, d + 1)

RECURSIVE StripZeros(_)
StripZeros(digits) ==
    IF Len(digits) > 1 /\ Head(digits) = "0" THEN StripZeros(Tail(digits)) ELSE digits

RECURSIVE HexOf(_, _)
\* the sixteen hexadecimal digits of h, from limb i down
HexOf(h, i) ==
    IF i = 0 THEN <<>>
    ELSE HexDigit(h[i] \div 16) \o HexDigit(h[i] % 16) \o HexOf(h, i - 1)

\* strconv.FormatUint(v, 16): lower-case digits without leading zeros
FormatUint16(h) == StripZeros(HexOf(h, 8))

\* the hash after the four writes of lines 180-183
StaticPodSum64(host, podName, namespace, clusterName) ==
    Fnv64Write(Fnv64Write(Fnv64Write(Fnv64Write(Offset64, host), podName),
                          namespace), clusterName)

\* no transformer call is made while the storage or the CRI client is
\* what runs; here nothing else runs
InitK8s ==
    /\ StorageStart({<<>>})
    /\ cfg = [maxDumps |-> 0, hasObserver |-> FALSE]
    /\ dirState = "unset"
    /\ cri = NoCri
    /\ k8s = NoK8s

\* one call; fed is every byte handed to h.Write, in order
GenerateUniqueK8sStaticPodHash(host, podName, namespace, clusterName) ==
    /\ Len(k8s) < MaxHashCalls
    /\ k8s' = Append(k8s,
                [host |-> host, podName |-> podName, namespace |-> namespace,
                 clusterName |-> clusterName,
                 fed |-> host \o podName \o namespace \o clusterName,
                 id |-> FormatUint16(StaticPodSum64(host, podName, namespace,
                                                    clusterName))])
    /\ UNCHANGED <<storageVars, cri>>

NextK8s ==
    \E host \in HostNames, podName \in PodNames,
       namespace \in Namespaces, clusterName \in ClusterNames :
        GenerateUniqueK8sStaticPodHash(host, podName, namespace, clusterName)

SpecK8s == InitK8s /\ [][NextK8s]_vars

\* the arguments of a call
TupleOf(call) == <<call.host, call.podName, call.namespace, call.clusterName>>

\* C26 as stated: two calls with different (host, podName, namespace,
\* clusterName) never feed the same bytes to the hash and never return the
\* same identifier.
C26_AsStated ==
    \A i, j \in DOMAIN k8s :
        TupleOf(k8s[i]) # TupleOf(k8s[j]) =>
            /\ k8s[i].fed # k8s[j].fed
            /\ k8s[i].id # k8s[j].id


\* C31: with no removal failing and nobody else deleting files, once the
\* constructor has returned and no call is in progress every path in the
\* files of an entry of the LRU is a file of the directory, and the files of
\* an evicted dump that the LRU does not hold again are not in the directory.
C31_IndexMatchesDirectory ==
    Quiescent =>
        /\ \A i \in DOMAIN localDumps :
              \A k \in DOMAIN localDumps[i].files : Exists(localDumps[i].files[k])
        /\ \A j \in DOMAIN evicted :
              evicted[j].key \notin Keys(localDumps) => AllGone(evicted[j].files)

\* C31 witness: after two Persist calls that returned nil the LRU holds a
\* dump, whose files exist, and a dump with a file was evicted and is not
\* held again.
C31_Witness ==
    /\ Quiescent
    /\ Len(persisted) >= 2
    /\ localDumps # <<>>
    /\ \E j \in DOMAIN evicted :
          /\ evicted[j].key \notin Keys(localDumps)
          /\ evicted[j].files # <<>>


\* C32 as stated: when Persist returns an error, ad.Metadata.Size is what
\* it was when the call started.
C32_AsStated ==
    [][\A t \in Threads :
          pc[t] \in PreCommit /\ pc'[t] = "idle" =>
              size'[loc[t].name] = loc[t].preSize]_vars

\* C32: when Persist returns the error of compressWithGZip, ad.Metadata.Size
\* is what it was when the call started; when it returns an error of
\* os.Create, os.Chmod, Write, Close or os.Rename, ad.Metadata.Size is the
\* length of the bytes the call was to write.
C32_SizeKeptOnlyOnCompressError ==
    [][\A t \in Threads :
          /\ pc[t] = "compress" /\ pc'[t] = "idle" =>
                size'[loc[t].name] = loc[t].preSize
          /\ pc[t] \in FromCreate /\ pc'[t] = "idle" =>
                size'[loc[t].name] = Len(Intended(t))]_vars

\* C32 witness: os.Create failed in the only Persist call made so far, on a
\* directory that held no dump, and a dump has a size.
C32_Witness ==
    /\ Quiescent
    /\ ret = "err_create"
    /\ persisted = <<>>
    /\ seeded = <<>>
    /\ \E n \in Names : size[n] > 0


\* the dumps the directory held at startup, while no Persist has returned
\* nil: those that still have a file with a known extension and those evicted
StartupDumps ==
    {DumpNameOf(f) : f \in {g \in DOMAIN disk : ~Unmanaged(g)}}
        \cup {evicted[j].key : j \in DOMAIN evicted}
\* the constructor has returned, no Persist has returned nil or is in
\* progress, and every file with a known extension is held by the LRU (no
\* file was skipped for a failure of Info)
OnlyReconciled ==
    /\ Quiescent
    /\ persisted = <<>>
    /\ \A f \in DOMAIN disk :
          ~Unmanaged(f) =>
              \E i \in DOMAIN localDumps :
                  \E k \in DOMAIN localDumps[i].files : localDumps[i].files[k] = f

\* C33: when the directory held k dumps at startup and k is more than the
\* size of the LRU, the constructor has evicted k minus size dumps, their
\* files are gone, the LRU is full, and the evictions are all in the counter
\* until a SendTelemetry; once a SendTelemetry has run the gauge it sent is
\* the size, the count it sent, if any, is k minus size, that many have been
\* flushed and the counter is zero.
C33_StartupEvictionsCounted ==
    LET k == Cardinality(StartupDumps) IN
    OnlyReconciled /\ k > cfg.maxDumps =>
        /\ Len(evicted) = k - cfg.maxDumps
        /\ \A j \in DOMAIN evicted : AllGone(evicted[j].files)
        /\ Len(localDumps) = cfg.maxDumps
        /\ deletedCount + flushed = k - cfg.maxDumps
        /\ ~telemetry.gaugeSent /\ ~telemetry.countSent =>
              deletedCount = k - cfg.maxDumps
        /\ telemetry.gaugeSent =>
              /\ telemetry.gauge = cfg.maxDumps
              /\ flushed = k - cfg.maxDumps
              /\ deletedCount = 0
        /\ telemetry.countSent =>
              /\ telemetry.count = k - cfg.maxDumps
              /\ telemetry.gaugeSent

\* C33 witness: the directory held three dumps for an LRU of size one, and
\* the first SendTelemetry has sent a gauge of one and a count of two.
C33_Witness ==
    /\ OnlyReconciled
    /\ Cardinality(StartupDumps) = 3
    /\ cfg.maxDumps = 1
    /\ telemetry.gaugeSent /\ telemetry.gauge = 1
    /\ telemetry.countSent /\ telemetry.count = 2


\* C34: every connection that is open was dialed by an attempt of
\* CRIUtil.init that is still running or by one that returned nil: an attempt
\* that returns an error after the dial has closed its connection first, so
\* that with no attempt running, and as long as none has passed, no
\* connection is open whatever the number of failed attempts; the runtime
\* name and version are set only once an attempt has returned nil.
C34_FailedAttemptClosesConn ==
    LET running == Cardinality({g \in Goroutines : cri.gpc[g] \in WithConn}) IN
    /\ cri.openConns = cri.keptConns + running
    /\ \A g \in Goroutines :
          cri.gpc[g] = "ret" /\ cri.gerr[g] /\ cri.keptConns = 0 /\ running = 0 =>
              cri.openConns = 0
    /\ cri.runtimeSet <=> cri.keptConns > 0
    /\ cri.status = "OK" => cri.runtimeSet

\* C34 witness: two attempts have failed after the dial and closed their
\* connection, the second is about to hand its error to the caller of
\* GetUtil, no connection is open and the runtime is not set.
C34_Witness ==
    /\ cri.used
    /\ cri.closedConns = 2
    /\ cri.openConns = 0
    /\ ~cri.runtimeSet
    /\ Len(cri.returned) = 1
    /\ cri.returned[1].err
    /\ \E g \in Goroutines : cri.gpc[g] = "ret" /\ cri.gerr[g]


(* ============ the pod transformer: getConditionMessage =================== *)

\* corev1.PodConditionType: the four types of the state transition order,
\* and one that is not among them
PodScheduled == "PodScheduled"
PodInitialized == "Initialized"
ContainersReady == "ContainersReady"
PodReady == "Ready"
PodConditionTypes ==
    {PodScheduled, PodInitialized, ContainersReady, PodReady, "DisruptionTarget"}

\* corev1.ConditionStatus
ConditionFalse == "False"
ConditionStatuses == {"True", ConditionFalse, "Unknown"}

\* the message a condition of a type has when it has one; the messages of
\* different types differ
MessageOf(type) ==
    CASE type = PodScheduled -> "0/3 nodes are available"
      [] type = PodInitialized -> "containers with incomplete status"
      [] type = ContainersReady -> "containers with unready status"
      [] type = PodReady -> "readiness gate not met"
      [] OTHER -> "pod is being disrupted"

PodConditions ==
    UNION {[Type : {type}, Status : ConditionStatuses, Message : {"", MessageOf(type)}] :
              type \in PodConditionTypes}

\* p.Status.Conditions holds at most one condition of a type (the list is
\* keyed by type in the Kubernetes API), in any order
MaxConditions == 3
ConditionLists ==
    UNION {{q \in [1 .. n -> PodConditions] :
                \A i, j \in 1 .. n : i # j => q[i].Type # q[j].Type} :
              n \in 0 .. MaxConditions}

\* p.Status.Message
StatusMessages == {"", "The node was low on resource"}

\* lines 458-463
chronologicalConditions == <<PodScheduled, PodInitialized, ContainersReady, PodReady>>

RECURSIVE PopulateMessageMap(_, _)
\* lines 472-476: the loop over the conditions in the order of the pod
\* status; a Go map gives "" for a key it does not hold
PopulateMessageMap(messageMap, conditions) ==
    IF conditions = <<>> THEN messageMap
    ELSE LET c == Head(conditions)
         IN  PopulateMessageMap(
                 IF c.Status = ConditionFalse /\ c.Message # ""
                 THEN [messageMap EXCEPT ![c.Type] = c.Message]
                 ELSE messageMap,
                 Tail(conditions))

RECURSIVE FirstFailed(_, _)
\* lines 479-484: the loop over chronologicalConditions from position i
FirstFailed(messageMap, i) ==
    IF i > Len(chronologicalConditions) THEN ""
    ELSE IF messageMap[chronologicalConditions[i]] # ""
         THEN messageMap[chronologicalConditions[i]]
         ELSE FirstFailed(messageMap, i + 1)

RECURSIVE FirstInList(_)
\* mutant: the message of the first condition of the pod status that does
\* not pass
FirstInList(conditions) ==
    IF conditions = <<>> THEN ""
    ELSE IF Head(conditions).Status = ConditionFalse /\ Head(conditions).Message # ""
         THEN Head(conditions).Message
         ELSE FirstInList(Tail(conditions))

getConditionMessageInListOrder(p) ==
    IF Len(p.Conditions) = 0 THEN p.Message ELSE FirstInList(p.Conditions)

getConditionMessage(p) ==
    IF Len(p.Conditions) = 0
    THEN p.Message
    ELSE FirstFailed(PopulateMessageMap([type \in PodConditionTypes |-> ""], p.Conditions), 1)

\* the transformer is handed the status of a pod
InitCondition ==
    /\ StorageStart({<<>>})
    /\ cfg = [maxDumps |-> 0, hasObserver |-> FALSE]
    /\ dirState = "unset"
    /\ cri = NoCri
    /\ \E conditions \in ConditionLists, message \in StatusMessages :
          k8s = [pod |-> [Conditions |-> conditions, Message |-> message],
                 called |-> FALSE,
                 out |-> ""]

GetConditionMessageCall ==
    /\ ~k8s.called
    /\ k8s' = [k8s EXCEPT !.called = TRUE, !.out = getConditionMessage(k8s.pod)]
    /\ UNCHANGED <<storageVars, cri>>

NextCondition == GetConditionMessageCall

SpecCondition == InitCondition /\ [][NextCondition]_vars

\* the conditions of p that do not pass: status False and a message
NotPassing(p) ==
    {p.Conditions[i] : i \in {j \in DOMAIN p.Conditions :
                                 /\ p.Conditions[j].Status = ConditionFalse
                                 /\ p.Conditions[j].Message # ""}}
\* the positions in the transition order of the conditions that do not pass
FailedRanks(p) ==
    {i \in DOMAIN chronologicalConditions :
        \E c \in NotPassing(p) : c.Type = chronologicalConditions[i]}
Least(S) == CHOOSE i \in S : \A j \in S : i <= j

\* C35: getConditionMessage returns the status message of a pod without
\* conditions; for a pod with conditions it returns the message of the
\* condition that does not pass and comes first in the order PodScheduled,
\* Initialized, ContainersReady, Ready, which depends on the set of the
\* conditions and not on their order in the status, and the empty string
\* when no condition of these types fails with a message.
C35_FirstInTransitionOrder ==
    k8s.called =>
        LET p == k8s.pod
            ranks == FailedRanks(p)
        IN  /\ p.Conditions = <<>> => k8s.out = p.Message
            /\ p.Conditions # <<>> /\ ranks # {} =>
                  \E c \in NotPassing(p) :
                      /\ c.Type = chronologicalConditions[Least(ranks)]
                      /\ k8s.out = c.Message
            /\ p.Conditions # <<>> /\ ranks = {} => k8s.out = ""
            /\ p.Conditions # <<>> /\ NotPassing(p) = {} => k8s.out = ""

\* C35 witness: the status lists a failing Ready before a failing
\* PodScheduled, with a passing condition in between, and the message
\* returned is that of PodScheduled.
C35_Witness ==
    /\ k8s.called
    /\ Len(k8s.pod.Conditions) = 3
    /\ k8s.pod.Conditions[1] =
          [Type |-> PodReady, Status |-> ConditionFalse, Message |-> MessageOf(PodReady)]
    /\ k8s.pod.Conditions[2].Status = "True"
    /\ k8s.pod.Conditions[3] =
          [Type |-> PodScheduled, Status |-> ConditionFalse, Message |-> MessageOf(PodScheduled)]
    /\ k8s.pod.Message # ""
    /\ k8s.out = MessageOf(PodScheduled)


(* ======== the pod transformer: FillK8sPodResourceVersion ================ *)

\* 64-bit words, as the eight bytes of Limbs
Zero64 == <<0, 0, 0, 0, 0, 0, 0, 0>>
RECURSIVE Pow2(_)
Pow2(n) == IF n = 0 THEN 1 ELSE 2 * Pow2(n - 1)
\* the word of a number below 2^24
Word64(n) == <<n % Byte, (n \div Byte) % Byte, (n \div (Byte * Byte)) % Byte, 0, 0, 0, 0, 0>>
\* the word of up to eight bytes, least significant first
LittleEndian64(bytes) == SubSeq(bytes \o Zero64, 1, 8)
RECURSIVE Xor64From(_, _, _)
Xor64From(a, b, i) ==
    IF i > 8 THEN <<>> ELSE <<Xor(a[i], b[i], 8)>> \o Xor64From(a, b, i + 1)
Xor64(a, b) == Xor64From(a, b, 1)
Plus64(a, b) == Plus(a, b, 1, 0)

RECURSIVE ColumnSum(_, _, _, _)
\* the sum of the products of limbs that land on limb k
ColumnSum(a, b, k, i) ==
    IF i > k THEN 0 ELSE a[i] * b[k + 1 - i] + ColumnSum(a, b, k, i + 1)

RECURSIVE TimesFrom(_, _, _, _)
TimesFrom(a, b, k, carry) ==
    IF k > 8 THEN <<>>
    ELSE LET v == ColumnSum(a, b, k, 1) + carry
         IN  <<v % Byte>> \o TimesFrom(a, b, k + 1, v \div Byte)

\* a * b modulo 2^64
Times64(a, b) == TimesFrom(a, b, 1, 0)

RECURSIVE Shl64From(_, _, _, _)
\* x << (8 * q + b), from limb i on
Shl64From(x, q, b, i) ==
    IF i > 8 THEN <<>>
    ELSE <<(IF i - q >= 1 THEN (x[i - q] * Pow2(b)) % Byte ELSE 0)
           + (IF i - q - 1 >= 1 THEN x[i - q - 1] \div Pow2(8 - b) ELSE 0)>>
         \o Shl64From(x, q, b, i + 1)

RECURSIVE Shr64From(_, _, _, _)
\* x >> (8 * q + b), from limb i on
Shr64From(x, q, b, i) ==
    IF i > 8 THEN <<>>
    ELSE <<(IF i + q <= 8 THEN x[i + q] \div Pow2(b) ELSE 0)
           + (IF i + q + 1 <= 8 THEN (x[i + q + 1] * Pow2(8 - b)) % Byte ELSE 0)>>
         \o Shr64From(x, q, b, i + 1)

\* x << r and x >> r, for r in 0 .. 63
Shl64(x, r) == Shl64From(x, r \div 8, r % 8, 1)
Shr64(x, r) == Shr64From(x, r \div 8, r % 8, 1)
\* bits.RotateLeft64: the two parts have no bit in common
Rotl64(x, r) == Plus64(Shl64(x, r), Shr64(x, 64 - r))

\* murmur3, the 128-bit variant for 64-bit platforms with seed 0, of which
\* Sum64 is the first half
MurmurC1 == <<213, 83, 66, 17, 145, 123, 195, 135>>
MurmurC2 == <<127, 147, 69, 39, 67, 173, 245, 76>>
MurmurN1 == <<41, 231, 220, 82, 0, 0, 0, 0>>
MurmurN2 == <<181, 90, 73, 56, 0, 0, 0, 0>>
FmixC1 == <<205, 140, 85, 237, 215, 175, 81, 255>>
FmixC2 == <<83, 236, 133, 26, 254, 185, 206, 196>>
BlockSize == 16

MixK1(k1) == Times64(Rotl64(Times64(k1, MurmurC1), 31), MurmurC2)
MixK2(k2) == Times64(Rotl64(Times64(k2, MurmurC2), 33), MurmurC1)

\* one block of 16 bytes
MurmurBlock(h, block) ==
    LET h1 == Xor64(h[1], MixK1(LittleEndian64(SubSeq(block, 1, 8))))
        g1 == Plus64(Times64(Plus64(Rotl64(h1, 27), h[2]), Word64(5)), MurmurN1)
        h2 == Xor64(h[2], MixK2(LittleEndian64(SubSeq(block, 9, 16))))
        g2 == Plus64(Times64(Plus64(Rotl64(h2, 31), g1), Word64(5)), MurmurN2)
    IN  <<g1, g2>>

\* the bytes after the last whole block
MurmurTail(h, tail) ==
    LET h2 == IF Len(tail) > 8
              THEN Xor64(h[2], MixK2(LittleEndian64(SubSeq(tail, 9, Len(tail)))))
              ELSE h[2]
        h1 == IF Len(tail) > 0
              THEN Xor64(h[1], MixK1(LittleEndian64(
                       SubSeq(tail, 1, IF Len(tail) > 8 THEN 8 ELSE Len(tail)))))
              ELSE h[1]
    IN  <<h1, h2>>

Fmix64(k) ==
    LET a == Xor64(k, Shr64(k, 33))
        b == Times64(a, FmixC1)
        c == Xor64(b, Shr64(b, 33))
        d == Times64(c, FmixC2)
    IN  Xor64(d, Shr64(d, 33))

\* the end of murmur3.Sum64: the tail, the length n of the data and the
\* final mix; the sum is the first of the two words
MurmurFinish(h, tail, n) ==
    LET t == MurmurTail(h, tail)
        a1 == Xor64(t[1], Word64(n))
        a2 == Xor64(t[2], Word64(n))
        b1 == Plus64(a1, a2)
        b2 == Plus64(a2, b1)
    IN  Plus64(Fmix64(b1), Fmix64(b2))

RECURSIVE DivTenFrom(_, _, _)
\* the limbs 1 .. i of x with rem above them, divided by ten
DivTenFrom(x, i, rem) ==
    IF i = 0 THEN [q |-> <<>>, r |-> rem]
    ELSE LET cur == rem * Byte + x[i]
             rest == DivTenFrom(x, i - 1, cur % 10)
         IN  [q |-> Append(rest.q, cur \div 10), r |-> rest.r]

RECURSIVE Decimal(_)
Decimal(x) ==
    IF x = Zero64 THEN <<>>
    ELSE LET d == DivTenFrom(x, 8, 0) IN Decimal(d.q) \o <<48 + d.r>>

\* fmt.Sprint of a uint64: its decimal digits
Sprint(x) == IF x = Zero64 THEN <<48>> ELSE Decimal(x)

RECURSIVE StrLess(_, _)
\* a < b for Go strings: byte by byte
StrLess(a, b) ==
    IF b = <<>> THEN FALSE
    ELSE IF a = <<>> THEN TRUE
    ELSE IF Head(a) # Head(b) THEN Head(a) < Head(b)
    ELSE StrLess(Tail(a), Tail(b))

RECURSIVE InsertString(_, _)
InsertString(sorted, x) ==
    IF sorted = <<>> THEN <<x>>
    ELSE IF StrLess(x, Head(sorted)) THEN <<x>> \o sorted
    ELSE <<Head(sorted)>> \o InsertString(Tail(sorted), x)

RECURSIVE SortStrings(_)
\* sort.Strings: the strings in increasing order
SortStrings(strings) ==
    IF strings = <<>> THEN <<>>
    ELSE InsertString(SortStrings(Tail(strings)), Head(strings))

\* the JSON text of the pod model, with the members that are empty left out
Quote(x) == <<34>> \o x \o <<34>>
RECURSIVE JoinComma(_)
JoinComma(parts) ==
    IF parts = <<>> THEN <<>>
    ELSE IF Len(parts) = 1 THEN parts[1]
    ELSE parts[1] \o <<44>> \o JoinComma(Tail(parts))
JsonArray(strings) == <<91>> \o JoinComma([i \in DOMAIN strings |-> Quote(strings[i])]) \o <<93>>
JsonObject(members) == <<123>> \o JoinComma(members) \o <<125>>
Member(key, value) == <<Quote(key) \o <<58>> \o value>>
OmitEmpty(value, member) == IF value = <<>> THEN <<>> ELSE member

KeyMetadata == <<109, 101, 116, 97, 100, 97, 116, 97>>
KeyLabels == <<108, 97, 98, 101, 108, 115>>
KeyAnnotations == <<97, 110, 110, 111, 116, 97, 116, 105, 111, 110, 115>>
KeyResourceVersion ==
    <<114, 101, 115, 111, 117, 114, 99, 101, 86, 101, 114, 115, 105, 111, 110>>
KeyTags == <<116, 97, 103, 115>>

\* marshaller.Marshal(p)
Marshal(p) ==
    JsonObject(
        Member(KeyMetadata,
               JsonObject(
                   OmitEmpty(p.Metadata.Labels,
                             Member(KeyLabels, JsonArray(p.Metadata.Labels)))
                \o OmitEmpty(p.Metadata.Annotations,
                             Member(KeyAnnotations, JsonArray(p.Metadata.Annotations)))
                \o OmitEmpty(p.Metadata.ResourceVersion,
                             Member(KeyResourceVersion, Quote(p.Metadata.ResourceVersion)))))
     \o OmitEmpty(p.Tags, Member(KeyTags, JsonArray(p.Tags))))

\* mutant: p.Tags is left in the order it came in
SortSlicesButTags(p) ==
    [Metadata |-> [Labels |-> SortStrings(p.Metadata.Labels),
                   Annotations |-> SortStrings(p.Metadata.Annotations),
                   ResourceVersion |-> p.Metadata.ResourceVersion],
     Tags |-> p.Tags]

\* lines 198-200: the three slices of the model, sorted in place
SortSlices(p) ==
    [Metadata |-> [Labels |-> SortStrings(p.Metadata.Labels),
                   Annotations |-> SortStrings(p.Metadata.Annotations),
                   ResourceVersion |-> p.Metadata.ResourceVersion],
     Tags |-> SortStrings(p.Tags)]

\* the strings of labels, annotations and tags: "a", "ab", "b"
TagStrings == {<<97>>, <<97, 98>>, <<98>>}
LabelSlices == {<<>>, <<<<97>>>>, <<<<97>>, <<98>>>>, <<<<98>>, <<97>>>>}
AnnotationSlices == {<<>>, <<<<97, 98>>, <<97>>>>, <<<<97>>, <<97, 98>>>>}
TagSlices == {<<<<98>>>>, <<<<98>>, <<97, 98>>>>, <<<<97, 98>>, <<98>>>>}
\* the resource version the Kubelet gave
KubeletVersions == {<<49>>}

PodModels ==
    {[Metadata |-> [Labels |-> l, Annotations |-> a, ResourceVersion |-> v], Tags |-> t] :
        l \in LabelSlices, a \in AnnotationSlices, v \in KubeletVersions, t \in TagSlices}

\* no hash is being computed
NoDigest == [h |-> <<>>, rest |-> <<>>, len |-> 0]

\* two pod models are handed to the transformer, one after the other
InitVersion ==
    /\ StorageStart({<<>>})
    /\ cfg = [maxDumps |-> 0, hasObserver |-> FALSE]
    /\ dirState = "unset"
    /\ cri = NoCri
    /\ \E p, q \in PodModels :
          k8s = [given |-> <<p, q>>, pods |-> <<p, q>>, done |-> <<"no", "no">>,
                 digest |-> NoDigest]

\* lines 198-209: the slices are sorted in place and the model is
\* marshalled (marshalFails: Marshal returns an error, which is returned)
FillMarshal(i, marshalFails) ==
    /\ k8s.done[i] = "no"
    /\ i > 1 => k8s.done[i - 1] \in {"ok", "err"}
    /\ LET sorted == SortSlices(k8s.pods[i])
           jsonPodModel == Marshal(sorted)
       IN  k8s' = IF marshalFails
                  THEN [k8s EXCEPT !.pods[i] = sorted, !.done[i] = "err"]
                  ELSE [k8s EXCEPT !.pods[i] = sorted,
                                   !.done[i] = "sum",
                                   !.digest = [h |-> <<Zero64, Zero64>>,
                                               rest |-> jsonPodModel,
                                               len |-> Len(jsonPodModel)]]
    /\ UNCHANGED <<storageVars, cri>>

\* line 212, murmur3.Sum64: the next whole block of the text
FillSumBlock(i) ==
    /\ k8s.done[i] = "sum"
    /\ Len(k8s.digest.rest) >= BlockSize
    /\ k8s' = [k8s EXCEPT
                 !.digest.h = MurmurBlock(@, SubSeq(k8s.digest.rest, 1, BlockSize)),
                 !.digest.rest = SubSeq(@, BlockSize + 1, Len(@))]
    /\ UNCHANGED <<storageVars, cri>>

\* lines 212-215: the end of murmur3.Sum64, the version is set to the
\* decimal digits of the sum, and nil is returned
FillVersion(i) ==
    /\ k8s.done[i] = "sum"
    /\ Len(k8s.digest.rest) < BlockSize
    /\ k8s' = [k8s EXCEPT
                 !.pods[i].Metadata.ResourceVersion =
                     Sprint(MurmurFinish(k8s.digest.h, k8s.digest.rest, k8s.digest.len)),
                 !.done[i] = "ok",
                 !.digest = NoDigest]
    /\ UNCHANGED <<storageVars, cri>>

FillK8sPodResourceVersion(i) ==
    \/ \E marshalFails \in BOOLEAN : FillMarshal(i, marshalFails)
    \/ FillSumBlock(i)
    \/ FillVersion(i)

NextVersion == \E i \in 1 .. 2 : FillK8sPodResourceVersion(i)

SpecVersion == InitVersion /\ [][NextVersion]_vars

\* how often x is in q
CountIn(q, x) == Cardinality({i \in DOMAIN q : q[i] = x})
SameStrings(q1, q2) == \A x \in TagStrings : CountIn(q1, x) = CountIn(q2, x)
\* p and q differ at most in the order of their labels, annotations and tags
SameUpToOrder(p, q) ==
    /\ SameStrings(p.Metadata.Labels, q.Metadata.Labels)
    /\ SameStrings(p.Metadata.Annotations, q.Metadata.Annotations)
    /\ SameStrings(p.Tags, q.Tags)
    /\ p.Metadata.ResourceVersion = q.Metadata.ResourceVersion

\* C36: when FillK8sPodResourceVersion has returned nil for two pod models
\* that were handed to it with the same labels, annotations and tags in
\* whatever order, and nothing else different, the two models have the same
\* resource version.
C36_VersionIgnoresSliceOrder ==
    /\ k8s.done = <<"ok", "ok">>
    /\ SameUpToOrder(k8s.given[1], k8s.given[2])
    => k8s.pods[1].Metadata.ResourceVersion = k8s.pods[2].Metadata.ResourceVersion

\* C36 witness: the two models came with their labels, their annotations
\* and their tags in different orders, both hold them sorted and both got
\* the same new version, 6838448056362462710.
C36_Witness ==
    /\ k8s.done = <<"ok", "ok">>
    /\ SameUpToOrder(k8s.given[1], k8s.given[2])
    /\ k8s.given[1].Metadata.Labels # k8s.given[2].Metadata.Labels
    /\ k8s.given[1].Metadata.Annotations # k8s.given[2].Metadata.Annotations
    /\ k8s.given[1].Tags # k8s.given[2].Tags
    /\ k8s.pods[1].Metadata.ResourceVersion = k8s.pods[2].Metadata.ResourceVersion
    /\ k8s.pods[1].Metadata.ResourceVersion # k8s.given[1].Metadata.ResourceVersion
    /\ k8s.pods[1].Metadata.Labels = <<<<97>>, <<98>>>>
    /\ k8s.pods[1].Metadata.Annotations = <<<<97>>, <<97, 98>>>>
    /\ k8s.pods[1].Tags = <<<<97, 98>>, <<98>>>>
    /\ k8s.pods[1].Metadata.ResourceVersion =
          <<54, 56, 51, 56, 52, 52, 56, 48, 53, 54, 51, 54, 50, 52, 54, 50, 55, 49, 48>>

====
